---------------------------- MODULE Spec2Model ----------------------------
(***************************************************************************)
(* A model of lenrmc/nubase.py: the composition generator vectors3, the   *)
(* partition enumerator possible_daughters, Reaction and its notes, the    *)
(* cached channel generator Combinations and its cache key, System's       *)
(* reactant specs and the nuclide registry Nuclides; and of DecayScenario  *)
(* of lenrmc/calculations.py.                                              *)
(***************************************************************************)
EXTENDS Integers, Sequences, FiniteSets, TLC

VARIABLES
    v3,      \* a running vectors3 generator
    pd,      \* a running possible_daughters generator
    rx,      \* a Reaction object and the arguments it was constructed from
    input,   \* the reactants and keyword arguments the Combinations are built from
    table,   \* the committed rows of the reactions table of lenrmc.db
    gen,     \* per consumer: its Combinations.reactions() generator
    calls,   \* the number of reactions() generators started so far
    first,   \* the sequence yielded by the first generator that ran to its end
    ck,      \* the Combinations objects whose cache keys are compared
    sys,     \* a call of System._parse_spec and what it returned
    ds,      \* the DecayScenario objects, by identity
    reg      \* the Nuclides class: the file it loads, its registry, the lookups

vars == <<v3, pd, rx, input, table, gen, calls, first, ck, sys, ds, reg>>
auxVars == <<ck, sys, ds, reg>>

(***************************************************************************)
(* Bounds of the model.                                                    *)
(***************************************************************************)
\* largest argument given to the vectors3 generator
MaxInteger == 8
\* largest total mass number given to possible_daughters
MaxMass == 8
\* largest total atomic number given to possible_daughters
MaxCharge == 4
\* largest count of a (count, nuclide) pair given to Reaction
MaxCount == 2
\* the number of reactions() generators started in one behaviour
MaxCalls == 3
\* the number of times the notes of one Reaction are read
MaxAccesses == 3
\* the number of '+'-separated terms of a reactant spec
MaxTerms == 2
\* the number of DecayScenario objects alive at once
MaxScenarios == 2
\* the number of rows of the nuclide data file
MaxRecords == 2
\* the number of lookups made in the registry after it was loaded
MaxLookups == 2

(***************************************************************************)
(* vectors3 (nubase.py 245-249)                                            *)
(***************************************************************************)
\* a faulty variant: it yields the triple with its last two components exchanged
V3TripleSwapped(j, k, i) == <<j - k, i, k>>

\* line 249: the triple yielded for the loop variables j, k, i
V3Triple(j, k, i) == <<j - k, k, i>>

\* a faulty variant: it forgets to shrink the inner range as i grows
V3InnerBoundWhole(integer, i) == integer

\* line 247: j = integer - i, the bound of the inner range
V3InnerBound(integer, i) == integer - i

\* a faulty variant: it walks the inner range downwards
V3InnerDescending(j, i) == [x \in 1..j |-> V3Triple(j, j - x, i)]

\* lines 248-249: what the inner loop yields for one i
V3Inner(j, i) == [x \in 1..j |-> V3Triple(j, x - 1, i)]

RECURSIVE V3Outer(_, _)
\* lines 246-249: what the outer loop yields from i on
V3Outer(integer, i) ==
    IF i >= integer THEN <<>>
    ELSE V3Inner(V3InnerBound(integer, i), i) \o V3Outer(integer, i + 1)

\* the whole sequence a vectors3(integer) generator yields
vectors3(integer) == V3Outer(integer, 0)

\* the generator, one yield at a time
V3Init ==
    \E n \in 0..MaxInteger :
        v3 = [integer |-> n, i |-> 0, k |-> 0, out |-> <<>>, pc |-> "loop"]

\* line 249: the inner loop yields one triple
V3Yield ==
    /\ v3.pc = "loop"
    /\ v3.i < v3.integer
    /\ v3.k < V3InnerBound(v3.integer, v3.i)
    /\ v3' = [v3 EXCEPT
                !.out = Append(@, V3Triple(V3InnerBound(v3.integer, v3.i), v3.k, v3.i)),
                !.k = @ + 1]

\* line 246: the inner range is exhausted, the outer loop takes the next i
V3NextI ==
    /\ v3.pc = "loop"
    /\ v3.i < v3.integer
    /\ v3.k >= V3InnerBound(v3.integer, v3.i)
    /\ v3' = [v3 EXCEPT !.i = @ + 1, !.k = 0]

\* the outer range is exhausted: the generator returns
V3Return ==
    /\ v3.pc = "loop"
    /\ v3.i >= v3.integer
    /\ v3' = [v3 EXCEPT !.pc = "done"]

(***************************************************************************)
(* possible_daughters (nubase.py 252-273)                                  *)
(***************************************************************************)
\* sorted() on tuples of two integers compares lexicographically
PairLE(a, b) == a[1] < b[1] \/ (a[1] = b[1] /\ a[2] <= b[2])

RECURSIVE InsertPair(_, _)
InsertPair(p, s) ==
    IF s = <<>> THEN <<p>>
    ELSE IF PairLE(p, Head(s)) THEN <<p>> \o s
    ELSE <<Head(s)>> \o InsertPair(p, Tail(s))

RECURSIVE SortPairsFrom(_)
SortPairsFrom(s) ==
    IF s = <<>> THEN <<>> ELSE InsertPair(Head(s), SortPairsFrom(Tail(s)))

\* a faulty variant: it leaves the pairs in positional order
SortPairsOmitted(s) == s

\* line 269: tuple(sorted(pairs))
SortPairs(s) == SortPairsFrom(s)

\* lines 261-262: some position holds more protons than nucleons
PDRejected(masses, protons) == \E i \in 1..3 : masses[i] < protons[i]

\* lines 259-266: the positional pairs, (0, 0) dropped
PDPairs(masses, protons) ==
    SelectSeq([i \in 1..3 |-> <<masses[i], protons[i]>>],
              LAMBDA pair : pair # <<0, 0>>)

\* the generator, one combination of the two loops at a time
PDInit ==
    \E a \in 0..MaxMass : \E z \in 0..MaxCharge :
        /\ z <= a
        /\ pd = [totals |-> <<a, z>>, mi |-> 1, pi |-> 1,
                 seen |-> {}, out |-> <<>>, pc |-> "loop"]

PDMassList == vectors3(pd.totals[1])
PDProtonList == vectors3(pd.totals[2])
PDInBody ==
    /\ pd.pc = "loop"
    /\ pd.mi <= Len(PDMassList)
    /\ pd.pi <= Len(PDProtonList)

\* lines 261-262, 267-268: the combination is rejected
PDReject ==
    /\ PDInBody
    /\ PDRejected(PDMassList[pd.mi], PDProtonList[pd.pi])
    /\ pd' = [pd EXCEPT !.pi = @ + 1]

\* lines 270-271: the canonical tuple was yielded before
PDSkipSeen ==
    /\ PDInBody
    /\ ~PDRejected(PDMassList[pd.mi], PDProtonList[pd.pi])
    /\ SortPairs(PDPairs(PDMassList[pd.mi], PDProtonList[pd.pi])) \in pd.seen
    /\ pd' = [pd EXCEPT !.pi = @ + 1]

\* lines 272-273: a new canonical tuple is recorded and yielded
PDYield ==
    /\ PDInBody
    /\ ~PDRejected(PDMassList[pd.mi], PDProtonList[pd.pi])
    /\ LET pairs == SortPairs(PDPairs(PDMassList[pd.mi], PDProtonList[pd.pi]))
       IN  /\ pairs \notin pd.seen
           /\ pd' = [pd EXCEPT !.seen = @ \cup {pairs},
                               !.out = Append(@, pairs),
                               !.pi = @ + 1]

\* line 256: the inner generator is exhausted, line 255 takes the next masses
PDNextMasses ==
    /\ pd.pc = "loop"
    /\ pd.mi <= Len(PDMassList)
    /\ pd.pi > Len(PDProtonList)
    /\ pd' = [pd EXCEPT !.mi = @ + 1, !.pi = 1]

\* line 255: the outer generator is exhausted: possible_daughters returns
PDReturn ==
    /\ pd.pc = "loop"
    /\ pd.mi > Len(PDMassList)
    /\ pd' = [pd EXCEPT !.pc = "done"]

RECURSIVE PDInnerFold(_, _, _, _, _)
\* lines 256-273 as a function: what the inner loop adds for one masses
PDInnerFold(masses, pl, pi, seen, out) ==
    IF pi > Len(pl) THEN [seen |-> seen, out |-> out]
    ELSE IF PDRejected(masses, pl[pi]) THEN PDInnerFold(masses, pl, pi + 1, seen, out)
    ELSE LET pairs == SortPairs(PDPairs(masses, pl[pi]))
         IN  IF pairs \in seen THEN PDInnerFold(masses, pl, pi + 1, seen, out)
             ELSE PDInnerFold(masses, pl, pi + 1, seen \cup {pairs}, Append(out, pairs))

RECURSIVE PDFold(_, _, _, _, _)
\* lines 255-273 as a function: the sequence a whole run yields
PDFold(ml, pl, mi, seen, out) ==
    IF mi > Len(ml) THEN out
    ELSE LET after == PDInnerFold(ml[mi], pl, 1, seen, out)
         IN  IF after.out = out THEN PDFold(ml, pl, mi + 1, seen, out)
             ELSE PDFold(ml, pl, mi + 1, after.seen, after.out)

\* list(possible_daughters(totals))
possible_daughters(totals) ==
    PDFold(vectors3(totals[1]), vectors3(totals[2]), 1, {}, <<>>)

(***************************************************************************)
(* The nuclide registry (nubase.py 137-166, 223-233).  The table stands    *)
(* for the records of db/nubtab12.asc, in file order; mass excesses are in *)
(* whole keV.                                                              *)
(***************************************************************************)
NuclideTable == <<
    [label |-> "n",   level |-> "0", numbers |-> <<1, 0>>,  mass_excess_kev |-> 8071,  is_stable |-> FALSE, notes |-> {"->B-"}],
    [label |-> "p",   level |-> "0", numbers |-> <<1, 1>>,  mass_excess_kev |-> 7289,  is_stable |-> TRUE,  notes |-> {}],
    [label |-> "d",   level |-> "0", numbers |-> <<2, 1>>,  mass_excess_kev |-> 13136, is_stable |-> TRUE,  notes |-> {}],
    [label |-> "t",   level |-> "0", numbers |-> <<3, 1>>,  mass_excess_kev |-> 14950, is_stable |-> FALSE, notes |-> {"->B-"}],
    [label |-> "3He", level |-> "0", numbers |-> <<3, 2>>,  mass_excess_kev |-> 14931, is_stable |-> TRUE,  notes |-> {}],
    [label |-> "4He", level |-> "0", numbers |-> <<4, 2>>,  mass_excess_kev |-> 2425,  is_stable |-> TRUE,  notes |-> {}],
    [label |-> "6Li", level |-> "0", numbers |-> <<6, 3>>,  mass_excess_kev |-> 14087, is_stable |-> TRUE,  notes |-> {}],
    [label |-> "6Li", level |-> "i", numbers |-> <<6, 3>>,  mass_excess_kev |-> 17650, is_stable |-> FALSE, notes |-> {}],
    [label |-> "7Li", level |-> "0", numbers |-> <<7, 3>>,  mass_excess_kev |-> 14907, is_stable |-> TRUE,  notes |-> {}],
    [label |-> "16O", level |-> "0", numbers |-> <<16, 8>>, mass_excess_kev |-> -4737, is_stable |-> TRUE,  notes |-> {}] >>

\* a Nuclide object is named by its place in the table
Nuclides == 1..Len(NuclideTable)
N_n == 1
N_p == 2
N_d == 3
N_4He == 6

\* line 161: Nuclide.signature
Signature(n) == <<NuclideTable[n].label, NuclideTable[n].level>>

\* lines 228-233: Nuclides.isomers[pair], the nuclides with these numbers in
\* file order (an empty list for numbers no record has)
Isomers(pair) ==
    SelectSeq([n \in Nuclides |-> n], LAMBDA n : NuclideTable[n].numbers = pair)

\* lines 241-242: Nuclides.__getitem__, the nuclide of a signature
BySignature(sig) == CHOOSE n \in Nuclides : Signature(n) = sig

(***************************************************************************)
(* Reaction (nubase.py 302-306, 339-342)                                   *)
(***************************************************************************)
RECURSIVE SumExcess(_)
\* lines 340-341: sum(num * i.mass_excess_kev for num, i in side)
SumExcess(side) ==
    IF side = <<>> THEN 0
    ELSE Head(side)[1] * NuclideTable[Head(side)[2]].mass_excess_kev
         + SumExcess(Tail(side))

\* a faulty variant: it subtracts the left side from the right side
QValueKevReversed(lvalues, rvalues) == SumExcess(rvalues) - SumExcess(lvalues)

\* lines 339-342: Reaction._q_value_kev
QValueKev(lvalues, rvalues) == SumExcess(lvalues) - SumExcess(rvalues)

\* a faulty variant: one stable daughter is enough for it
IsStableOfSome(rvalues) ==
    \E x \in 1..Len(rvalues) : NuclideTable[rvalues[x][2]].is_stable

\* lines 330-331: Reaction._is_stable
IsStable(rvalues) ==
    \A x \in 1..Len(rvalues) : NuclideTable[rvalues[x][2]].is_stable

\* lines 302-306: Reaction.__init__
NewReaction(lvalues, rvalues) ==
    [lvalues |-> lvalues, rvalues |-> rvalues,
     q_value_kev |-> QValueKev(lvalues, rvalues),
     is_stable |-> IsStable(rvalues)]

\* the sides Reaction.load is given: 1 or 2 pairs (count, nuclide)
Sides ==
    LET Pairs == (1..MaxCount) \X Nuclides
    IN  {<<a>> : a \in Pairs} \cup {<<a, b>> : a \in Pairs, b \in Pairs}

RxInit == rx = [state |-> "none"]

\* lines 289-294, 302-306: Reaction.load builds a Reaction from a left side
\* of ls and a right side of rs; no access to notes has returned yet
RxLoadFrom(ls, rs) ==
    /\ rx.state = "none"
    /\ \E l \in ls : \E r \in rs :
          rx' = [state |-> "built", reactants |-> l, daughters |-> r,
                 reaction |-> NewReaction(l, r), returned |-> <<>>]

RxLoad == RxLoadFrom(Sides, Sides)

\* the Reaction is dropped, the next one can be built
RxDrop ==
    /\ rx.state = "built"
    /\ rx' = [state |-> "none"]

(***************************************************************************)
(* Reaction.notes (nubase.py 276-284, 308-337)                             *)
(***************************************************************************)
\* lines 276-284: a GammaPhoton stands on a side as the nuclide 0.  The
\* notes are written in ASCII: "alpha", "gamma" and "->B-" are the source's
\* one-letter alpha and gamma and its arrow-beta-minus.
Gamma == 0
Label(n) == IF n = Gamma THEN "gamma" ELSE NuclideTable[n].label
Numbers(n) == IF n = Gamma THEN <<0, 0>> ELSE NuclideTable[n].numbers
StableNuclide(n) == IF n = Gamma THEN FALSE ELSE NuclideTable[n].is_stable
NuclideNotes(n) == IF n = Gamma THEN {"gamma"} ELSE NuclideTable[n].notes

\* lines 296-300, 312-314: self._noteworthy.get(d.label), as a set
Noteworthy(label) ==
    CASE label = "4He" -> {"alpha"}
      [] label = "n" -> {"n"}
      [] label = "t" -> {"t"}
      [] OTHER -> {}

\* lines 327-328: Reaction._neutron_transfer
NeutronTransfer(d, p) == Numbers(d) = <<Numbers(p)[1] + 1, Numbers(p)[2]>>

\* lines 333-337: Reaction.has_gamma
HasGamma(rvalues) ==
    IF 1 < Len(rvalues) THEN FALSE
    ELSE \A x \in 1..Len(rvalues) : rvalues[x][1] = 1

\* lines 308-325: one access to Reaction.notes: the set it returns and the
\* right side it leaves behind
Notes(reaction) ==
    LET rv == reaction.rvalues
        lv == reaction.lvalues
        labelled == UNION {Noteworthy(Label(rv[x][2])) : x \in 1..Len(rv)}
        transfer == IF \E x \in 1..Len(rv) : \E y \in 1..Len(lv) :
                          NeutronTransfer(rv[x][2], lv[y][2])
                    THEN {"n-transfer"} ELSE {}
        stable == IF reaction.is_stable THEN {"stable"} ELSE {}
        gamma == IF HasGamma(rv) THEN {"gamma"} ELSE {}
        after == IF HasGamma(rv) THEN Append(rv, <<1, Gamma>>) ELSE rv
        own == UNION {NuclideNotes(after[x][2]) : x \in 1..Len(after)}
    IN  [notes |-> labelled \cup transfer \cup stable \cup gamma \cup own,
         rvalues |-> after]

\* the sides of the Reactions whose notes are read: protons and deuterons
\* on the left; on the right any side, the empty one too
NoteReactants ==
    {l \in Sides : \A x \in 1..Len(l) : l[x][1] = 1 /\ l[x][2] \in {N_p, N_d}}
NoteDaughters == Sides \cup {<<>>}

RxLoadNoted == RxLoadFrom(NoteReactants, NoteDaughters)

\* lines 308-325: the property notes is read once more; the access leaves
\* its right side in the Reaction.  returned keeps, per access, the right
\* side the access found and the set it returned.
RxNotes ==
    /\ rx.state = "built"
    /\ Len(rx.returned) < MaxAccesses
    /\ LET n == Notes(rx.reaction)
       IN  rx' = [rx EXCEPT !.reaction.rvalues = n.rvalues,
                            !.returned = Append(@, [found |-> rx.reaction.rvalues,
                                                    notes |-> n.notes])]

(***************************************************************************)
(* Combinations (nubase.py 355-426)                                        *)
(***************************************************************************)
\* the reactant lists the Combinations are built from
ReactantLists == {
    << <<1, N_p>>, <<1, N_d>> >>,
    << <<1, N_d>>, <<1, N_d>> >>,
    << <<1, N_d>>, <<1, N_4He>> >>,
    << <<1, N_n>>, <<1, N_n>> >>,
    << <<2, N_d>>, <<1, N_p>> >>,
    << <<2, N_d>>, <<2, N_p>> >>,
    << <<1, N_p>> >>,
    << <<1, N_n>>, <<1, N_p>>, <<1, N_d>> >> }

\* the keyword arguments: lower_bound absent (<<>>) or given
KeywordArgs == {<<>>, <<0>>, <<6000>>}

\* line 358: self._lower_bound (<<>> is None)
LowerBound(kwargs) == kwargs

\* Python's order of the signatures of the table (digits before letters)
SignatureRank(n) ==
    CASE Signature(n) = <<"16O", "0">> -> 1
      [] Signature(n) = <<"3He", "0">> -> 2
      [] Signature(n) = <<"4He", "0">> -> 3
      [] Signature(n) = <<"6Li", "0">> -> 4
      [] Signature(n) = <<"6Li", "i">> -> 5
      [] Signature(n) = <<"7Li", "0">> -> 6
      [] Signature(n) = <<"d", "0">> -> 7
      [] Signature(n) = <<"n", "0">> -> 8
      [] Signature(n) = <<"p", "0">> -> 9
      [] Signature(n) = <<"t", "0">> -> 10

RECURSIVE InsertReactant(_, _)
InsertReactant(r, s) ==
    IF s = <<>> THEN <<r>>
    ELSE IF SignatureRank(r[2]) < SignatureRank(Head(s)[2]) THEN <<r>> \o s
    ELSE <<Head(s)>> \o InsertReactant(r, Tail(s))

RECURSIVE SortReactants(_)
\* lines 362, 402-404: sorted(self._reactants, key=self._sort_key), stable
SortReactants(s) ==
    IF s = <<>> THEN <<>>
    ELSE LET n == Len(s)
         IN  InsertReactant(s[n], SortReactants(SubSeq(s, 1, n - 1)))

\* lines 361-368: the cache key; the SHA-1 of the JSON text stands for the
\* text, and the text for the (parents, lower_bound) it serialises
CacheKey(reactants, kwargs) ==
    LET sorted == SortReactants(reactants)
    IN  <<[x \in 1..Len(sorted) |-> <<sorted[x][1], Signature(sorted[x][2])>>],
          kwargs>>

\* the reactants of the Combinations whose cache keys are compared: one or
\* two (count, nuclide) pairs
KeyReactantLists ==
    LET Pairs == (1..MaxCount) \X {N_p, N_d, N_4He}
    IN  {<<a>> : a \in Pairs} \cup {<<a, b>> : a \in Pairs, b \in Pairs}

\* lines 355-359: Combinations.__init__
NewCombinations(reactants, kwargs) ==
    [reactants |-> reactants, kwargs |-> kwargs,
     lower_bound |-> LowerBound(kwargs),
     cache_key |-> CacheKey(reactants, kwargs)]

CKInit == ck = <<>>

\* lines 349-359: Combinations.load builds a Combinations object
CKLoad ==
    /\ Len(ck) < 2
    /\ \E r \in KeyReactantLists : \E k \in KeywordArgs :
          ck' = Append(ck, NewCombinations(r, k))

\* the two Combinations are dropped, the next two can be built
CKDrop ==
    /\ Len(ck) = 2
    /\ ck' = <<>>

\* num * n.numbers: a tuple repeated num times
RECURSIVE TupleTimes(_, _)
TupleTimes(num, t) == IF num <= 0 THEN <<>> ELSE t \o TupleTimes(num - 1, t)

\* lines 371-373: the totals _outcomes gives to possible_daughters, or the
\* exception it raises.  map(operator.add, *numbers) needs exactly two
\* tuples and stops at the shorter one; the result must unpack into two.
OutcomeTotals(reactants) ==
    LET numbers == [x \in 1..Len(reactants) |->
                        TupleTimes(reactants[x][1], NuclideTable[reactants[x][2]].numbers)]
    IN  IF Len(numbers) # 2 THEN [raised |-> "TypeError"]
        ELSE LET n == IF Len(numbers[1]) < Len(numbers[2])
                      THEN Len(numbers[1]) ELSE Len(numbers[2])
                 added == [x \in 1..n |-> numbers[1][x] + numbers[2][x]]
             IN  IF n # 2 THEN [raised |-> "ValueError"]
                 ELSE [raised |-> "no", totals |-> added]

RECURSIVE Product(_)
\* itertools.product(*lists): the last list varies fastest
Product(lists) ==
    IF lists = <<>> THEN << <<>> >>
    ELSE LET rest == Product(Tail(lists))
             first_list == Head(lists)
             row(a) == [x \in 1..Len(rest) |-> <<a>> \o rest[x]]
             RECURSIVE rows(_)
             rows(x) == IF x > Len(first_list) THEN <<>>
                        ELSE row(first_list[x]) \o rows(x + 1)
         IN  rows(1)

RECURSIVE DaughtersFrom(_, _)
\* lines 378-382: the daughter tuples of the partitions from number x on
DaughtersFrom(outcomes, x) ==
    IF x > Len(outcomes) THEN <<>>
    ELSE LET daughters == [y \in 1..Len(outcomes[x]) |-> Isomers(outcomes[x][y])]
         IN  IF \E y \in 1..Len(daughters) : daughters[y] = <<>>
             THEN DaughtersFrom(outcomes, x + 1)
             ELSE Product(daughters) \o DaughtersFrom(outcomes, x + 1)

\* lines 375-382: list(self._daughters()) for totals that were computed
Daughters(totals) == DaughtersFrom(possible_daughters(totals), 1)

\* lines 391-392: the candidate Reaction of a daughter tuple
Candidate(reactants, daughters) ==
    NewReaction(reactants, [x \in 1..Len(daughters) |-> <<1, daughters[x]>>])

\* a faulty variant: it lets a Q-value equal to the threshold pass
AllowedAtThreshold(r, lower_bound) ==
    IF lower_bound = <<>> THEN TRUE ELSE r.q_value_kev >= lower_bound[1]

\* lines 399-400: Combinations._allowed
Allowed(r, lower_bound) ==
    IF lower_bound = <<>> THEN TRUE ELSE r.q_value_kev > lower_bound[1]

\* pickle.dumps(r): the Reaction's fields, each nuclide by value (its
\* signature stands for the pickled Nuclide)
PickleSide(side) == [x \in 1..Len(side) |-> <<side[x][1], Signature(side[x][2])>>]
PickleDumps(r) ==
    <<"Reaction", PickleSide(r.lvalues), PickleSide(r.rvalues),
      r.q_value_kev, r.is_stable>>

\* pickle.loads(blob): a Reaction with the pickled fields
UnpickleSide(side) == [x \in 1..Len(side) |-> <<side[x][1], BySignature(side[x][2])>>]
PickleLoads(blob) ==
    [lvalues |-> UnpickleSide(blob[2]), rvalues |-> UnpickleSide(blob[3]),
     q_value_kev |-> blob[4], is_stable |-> blob[5]]

\* the consumers, each with a Combinations (and a connection) of its own
Consumers == {1, 2}

\* line 359: self.cache_key
TheKey == CacheKey(input.reactants, input.kwargs)

\* line 373 and 375-382: what _outcomes and _daughters produce for the input
TheOutcome == OutcomeTotals(input.reactants)
TheDaughters == Daughters(TheOutcome.totals)

GenIdle ==
    [pc |-> "idle", path |-> "none", totals |-> <<>>, daughters |-> <<>>,
     idx |-> 1, results |-> <<>>, out |-> <<>>, pending |-> <<>>, after_first |-> FALSE,
     during_write |-> FALSE]

CombInit ==
    /\ input \in [reactants : ReactantLists, kwargs : KeywordArgs]
    /\ table = <<>>
    /\ gen = [c \in Consumers |-> GenIdle]
    /\ calls = 0
    /\ first = <<>>

\* lines 413-416: the rows select ... where parents = key returns
RowsOf(key) == SelectSeq(table, LAMBDA row : row[1] = key)

\* the generator of consumer c is finished: exhausted, raised or closed
Finished(c) == gen[c].pc \in {"idle", "done", "raised", "closed", "failed"}

\* another connection holds the write lock of an open transaction
WriteLocked(c) ==
    \E o \in Consumers \ {c} : gen[o].pc = "inserted" /\ gen[o].pending # <<>>

\* lines 385-387, 412-419: the first next() finds rows for the key
CallHit(c) ==
    /\ Finished(c)
    /\ calls < MaxCalls
    /\ RowsOf(TheKey) # <<>>
    /\ gen' = [gen EXCEPT ![c] =
                 [GenIdle EXCEPT !.pc = "cached", !.path = "hit",
                                 !.results = RowsOf(TheKey),
                                 !.after_first = first # <<>>,
                                 !.during_write = WriteLocked(c)]]
    /\ calls' = calls + 1
    /\ UNCHANGED <<input, table, first>>

\* line 387: a cached Reaction is unpickled and yielded
YieldCached(c) ==
    /\ gen[c].pc = "cached"
    /\ gen[c].idx <= Len(gen[c].results)
    /\ gen' = [gen EXCEPT ![c].out = Append(@, PickleLoads(gen[c].results[gen[c].idx][2])),
                          ![c].idx = @ + 1]
    /\ UNCHANGED <<input, table, calls, first>>

\* the generator ran to its end: the sequence it yielded is complete
Completed(c, out) ==
    first' = IF first = <<>> THEN <<out>> ELSE first

\* line 387: the cached rows are exhausted, the generator ends
ReturnCached(c) ==
    /\ gen[c].pc = "cached"
    /\ gen[c].idx > Len(gen[c].results)
    /\ gen' = [gen EXCEPT ![c].pc = "done"]
    /\ Completed(c, gen[c].out)
    /\ UNCHANGED <<input, table, calls>>

\* lines 42-54, 385, 406-416: the store cannot be opened or read: connect or
\* the select raises, and nothing around the call in reactions() catches it
CallFail(c) ==
    /\ Finished(c)
    /\ calls < MaxCalls
    /\ gen' = [gen EXCEPT ![c] =
                 [GenIdle EXCEPT !.pc = "failed",
                                 !.after_first = first # <<>>,
                                 !.during_write = WriteLocked(c)]]
    /\ calls' = calls + 1
    /\ UNCHANGED <<input, table, first>>

\* line 419: a stored blob cannot be deserialized: pickle.loads raises
\* inside the generator expression the rows are yielded from
UnpickleFail(c) ==
    /\ gen[c].pc = "cached"
    /\ gen[c].idx <= Len(gen[c].results)
    /\ gen' = [gen EXCEPT ![c].pc = "failed"]
    /\ UNCHANGED <<input, table, calls, first>>

\* lines 385-390, 420, 371-382: no row for the key; _outcomes computes the
\* totals, and the daughter tuples _daughters will produce are fixed by them
CallMiss(c) ==
    /\ Finished(c)
    /\ calls < MaxCalls
    /\ RowsOf(TheKey) = <<>>
    /\ TheOutcome.raised = "no"
    /\ gen' = [gen EXCEPT ![c] =
                 [GenIdle EXCEPT !.pc = "loop", !.path = "miss",
                                 !.totals = TheOutcome.totals,
                                 !.daughters = TheDaughters,
                                 !.after_first = first # <<>>,
                                 !.during_write = WriteLocked(c)]]
    /\ calls' = calls + 1
    /\ UNCHANGED <<input, table, first>>

\* lines 371-372: no row for the key, and _outcomes raises
CallRaise(c) ==
    /\ Finished(c)
    /\ calls < MaxCalls
    /\ RowsOf(TheKey) = <<>>
    /\ TheOutcome.raised # "no"
    /\ gen' = [gen EXCEPT ![c] =
                 [GenIdle EXCEPT !.pc = "raised", !.path = "miss",
                                 !.after_first = first # <<>>,
                                 !.during_write = WriteLocked(c)]]
    /\ calls' = calls + 1
    /\ UNCHANGED <<input, table, first>>

\* lines 390-394: the next candidate is built and is not allowed
Filter(c) ==
    /\ gen[c].pc = "loop"
    /\ gen[c].idx <= Len(gen[c].daughters)
    /\ ~Allowed(Candidate(input.reactants, gen[c].daughters[gen[c].idx]),
                LowerBound(input.kwargs))
    /\ gen' = [gen EXCEPT ![c].idx = @ + 1]
    /\ UNCHANGED <<input, table, calls, first>>

\* lines 390-395: the next candidate is built, allowed and yielded
Yield(c) ==
    /\ gen[c].pc = "loop"
    /\ gen[c].idx <= Len(gen[c].daughters)
    /\ LET r == Candidate(input.reactants, gen[c].daughters[gen[c].idx])
       IN  /\ Allowed(r, LowerBound(input.kwargs))
           /\ gen' = [gen EXCEPT ![c].out = Append(@, r), ![c].pc = "yielded"]
    /\ UNCHANGED <<input, table, calls, first>>

\* line 396: the consumer asks for the next one: the generator resumes and
\* appends the Reaction it had yielded
Resume(c) ==
    /\ gen[c].pc = "yielded"
    /\ gen' = [gen EXCEPT ![c].results = Append(@, gen[c].out[Len(gen[c].out)]),
                          ![c].idx = @ + 1,
                          ![c].pc = "loop"]
    /\ UNCHANGED <<input, table, calls, first>>

\* a faulty variant: the dropped generator persists what it has collected
CloseAndPersist(c) ==
    /\ gen[c].pc = "yielded"
    /\ gen' = [gen EXCEPT ![c].pc = "closed"]
    /\ table' = table \o [x \in 1..Len(gen[c].results) |->
                              <<TheKey, PickleDumps(gen[c].results[x])>>]
    /\ UNCHANGED <<input, calls, first>>

\* the consumer drops the suspended generator: nothing after line 395 runs
Close(c) ==
    /\ gen[c].pc = "yielded"
    /\ gen' = [gen EXCEPT ![c].pc = "closed"]
    /\ UNCHANGED <<input, table, calls, first>>

\* a faulty variant: no transaction is open, the first inserted row is
\* visible to every connection at once
ExecuteManyAutocommit(c) ==
    /\ gen[c].pc = "loop"
    /\ gen[c].idx > Len(gen[c].daughters)
    /\ ~WriteLocked(c)
    /\ LET rows == [x \in 1..Len(gen[c].results) |->
                       <<TheKey, PickleDumps(gen[c].results[x])>>]
       IN  /\ table' = table \o (IF rows = <<>> THEN <<>> ELSE <<rows[1]>>)
           /\ gen' = [gen EXCEPT ![c].pending = IF rows = <<>> THEN <<>> ELSE Tail(rows),
                                 ![c].pc = "inserted"]
    /\ UNCHANGED <<input, calls, first>>

\* lines 397, 423-425: the loop is over; executemany inserts one row per
\* result in a transaction of this connection
ExecuteMany(c) ==
    /\ gen[c].pc = "loop"
    /\ gen[c].idx > Len(gen[c].daughters)
    /\ ~WriteLocked(c)
    /\ gen' = [gen EXCEPT
                 ![c].pending = [x \in 1..Len(gen[c].results) |->
                                    <<TheKey, PickleDumps(gen[c].results[x])>>],
                 ![c].pc = "inserted"]
    /\ UNCHANGED <<input, table, calls, first>>

\* lines 397, 422-426: the store cannot be written: executemany or commit
\* raises, no row of this result set is committed, and the exception leaves
\* the generator after its last Reaction
WriteFail(c) ==
    /\ gen[c].pc \in {"loop", "inserted"}
    /\ gen[c].idx > Len(gen[c].daughters)
    /\ gen' = [gen EXCEPT ![c].pending = <<>>, ![c].pc = "failed"]
    /\ UNCHANGED <<input, table, calls, first>>

\* line 426: commit makes the rows visible to every connection; the
\* generator ends
Commit(c) ==
    /\ gen[c].pc = "inserted"
    /\ table' = table \o gen[c].pending
    /\ gen' = [gen EXCEPT ![c].pending = <<>>, ![c].pc = "done"]
    /\ Completed(c, gen[c].out)
    /\ UNCHANGED <<input, calls>>

(***************************************************************************)
(* System._parse_spec (nubase.py 30-39, 235-239, 444-456)                  *)
(***************************************************************************)
\* lines 30-39: the atomic numbers of the element symbols
ELEMENTS ==
    [symbol \in {"n", "H", "He", "Li", "C", "Fe", "Ni", "Pd"} |->
        CASE symbol = "n" -> 0
          [] symbol = "H" -> 1
          [] symbol = "He" -> 2
          [] symbol = "Li" -> 3
          [] symbol = "C" -> 6
          [] symbol = "Fe" -> 26
          [] symbol = "Ni" -> 28
          [] symbol = "Pd" -> 46]

\* lines 235-236: Nuclides.atomic_number, the nuclides of an atomic number in
\* file order
ByAtomicNumber(number) ==
    SelectSeq([n \in Nuclides |-> n], LAMBDA n : NuclideTable[n].numbers[2] = number)

\* lines 238-239: Nuclides.get, the nuclide of a signature or None (<<>>)
Get(sig) ==
    IF \E n \in Nuclides : Signature(n) = sig THEN <<BySignature(sig)>> ELSE <<>>

\* a faulty variant: it keeps every isotope
EveryIsotope(ns) == [x \in 1..Len(ns) |-> <<1, ns[x]>>]

\* line 455: (1, n) for n in ns if n.is_stable
StableIsotopes(ns) ==
    LET stable == SelectSeq(ns, LAMBDA n : NuclideTable[n].is_stable)
    IN  [x \in 1..Len(stable) |-> <<1, stable[x]>>]

\* lines 449-455: the options of one term, or the KeyError of ELEMENTS[label]
TermOptions(label) ==
    LET n == Get(<<label, "0">>)
    IN  IF n # <<>> THEN [raised |-> "no", options |-> << <<1, n[1]>> >>]
        ELSE IF label \notin DOMAIN ELEMENTS THEN [raised |-> "KeyError"]
        ELSE [raised |-> "no",
              options |-> StableIsotopes(ByAtomicNumber(ELEMENTS[label]))]

\* lines 444-456: System._parse_spec of the terms spec.split('+') gives,
\* stripped: the reactant lists it returns, or the exception it raises
ParseSpec(terms) ==
    LET each == [x \in 1..Len(terms) |-> TermOptions(terms[x])]
    IN  IF \E x \in 1..Len(terms) : each[x].raised # "no"
        THEN [raised |-> "KeyError", out |-> <<>>]
        ELSE [raised |-> "no",
              out |-> Product([x \in 1..Len(terms) |-> each[x].options])]

\* the terms of the specs: labels of nuclides and symbols of elements
Terms == {"n", "p", "d", "t", "3He", "4He", "6Li", "7Li", "16O",
          "H", "He", "Li", "O"}

\* the specs: 1 to MaxTerms terms
RECURSIVE SpecsOfLength(_)
SpecsOfLength(k) ==
    IF k = 0 THEN {<<>>}
    ELSE {<<t>> \o rest : t \in Terms, rest \in SpecsOfLength(k - 1)}
Specs == UNION {SpecsOfLength(k) : k \in 1..MaxTerms}

SysInit == sys = [state |-> "none"]

\* lines 439, 444-456: _parse_spec is called and parse consumes the product
SysParse ==
    /\ sys.state = "none"
    /\ \E terms \in Specs :
          LET r == ParseSpec(terms)
          IN  sys' = [state |-> "returned", spec |-> terms,
                      raised |-> r.raised, out |-> r.out]

\* the result is dropped, the next spec can be parsed
SysDrop ==
    /\ sys.state = "returned"
    /\ sys' = [state |-> "none"]

(***************************************************************************)
(* DecayScenario (calculations.py 144-220).  Data frames are objects of a  *)
(* heap, named by their place in ds.frames; a frame has the rows of the    *)
(* base table and, once calculated, one record of computed columns per     *)
(* row.  Fractions are in percent, masses in MeV, Q-values in whole MeV.   *)
(***************************************************************************)
\* line 153: Avogadro's constant, in units of 10^20 per mole
avogadros_number == 6022
\* line 152: e^2 / 4 pi in MeV fm, in units of 10^-4
e2_4pi == 14400

\* rows of Decay._initial_dataframe (lines 256-265): the alpha decays of
\* 147Sm and 209Bi
Row147Sm ==
    [parent_a |-> 147, parent_z |-> 62, heavier_daughter_z |-> 60,
     lighter_daughter_a |-> 4, heavier_daughter_a |-> 143,
     lighter_mass_mev |-> 3727, heavier_daughter_mass_mev |-> 133100,
     q_value_mev |-> 2, isotopic_fraction |-> 15]
Row209Bi ==
    [parent_a |-> 209, parent_z |-> 83, heavier_daughter_z |-> 81,
     lighter_daughter_a |-> 4, heavier_daughter_a |-> 205,
     lighter_mass_mev |-> 3727, heavier_daughter_mass_mev |-> 190900,
     q_value_mev |-> 3, isotopic_fraction |-> 100]
BaseTables == {<<Row147Sm>>, <<Row209Bi>>, <<Row147Sm, Row209Bi>>}

\* the keyword arguments Decay.scenario is given: moles and seconds always,
\* the overrides or not
ScenarioKwargs ==
    {("moles" :> 2) @@ ("seconds" :> 1) @@ i @@ a :
        i \in {<<>>, "isotopic_fraction" :> 0, "isotopic_fraction" :> 50},
        a \in {<<>>, "active_fraction" :> 0, "active_fraction" :> 50}}

\* the keyword arguments recalculate, activity, power and
\* remaining_active_atoms are given
Overrides ==
    {<<>>, "moles" :> 1, "isotopic_fraction" :> 0, "active_fraction" :> 50,
     "screening" :> 0, "screening" :> 59}

\* line 173: {**self.kwargs, **kwargs}
Merged(self_kwargs, kwargs) == kwargs @@ self_kwargs

\* kwargs.get(key) or default: the default also replaces a given 0
GetOr(kwargs, key, default) ==
    IF key \in DOMAIN kwargs
    THEN IF kwargs[key] = 0 THEN default ELSE kwargs[key]
    ELSE default

\* np.power(a, 1./3), in hundredths: the largest r with r^3 <= a * 10^6, for
\* the mass numbers of the table
Cbrt ==
    [a \in {row.lighter_daughter_a : row \in {Row147Sm, Row209Bi}}
            \cup {row.heavier_daughter_a : row \in {Row147Sm, Row209Bi}} |->
        CHOOSE r \in 0..700 :
            /\ r * r * r <= a * 1000000
            /\ (r + 1) * (r + 1) * (r + 1) > a * 1000000]

\* lines 200-216: the computed columns of one row the Gamow factor depends
\* on.  x is kept as its place relative to 1, the factor and the probability
\* as what numpy makes of it: np.arccos(np.sqrt(x)) and np.sqrt(x * (1 - x))
\* are nan for x > 1, and nan goes through the product and through np.exp.

\* line 202: 1.2 * (cbrt(a1) + cbrt(a2)), in hundredths of a fm
NuclearSeparationFm(row) ==
    (12 * (Cbrt[row.lighter_daughter_a] + Cbrt[row.heavier_daughter_a])) \div 10

\* line 204: lighter_ke_mev = q / (1 + ml / mh), in keV
LighterKeKev(row) ==
    (row.q_value_mev * 1000 * (row.heavier_daughter_mass_mev \div 100))
        \div ((row.heavier_daughter_mass_mev + row.lighter_mass_mev) \div 100)

\* lines 203, 213: x = ke / (2 Z e2 / separation) against 1, cross-multiplied
XAgainstOne(ke_side, barrier_side) ==
    IF ke_side > barrier_side THEN "above"
    ELSE IF ke_side = barrier_side THEN "one" ELSE "below"

\* line 215: ph * 2 * Z * e2_4pi * (arccos(sqrt(x)) - sqrt(x * (1 - x)))
GamowFactor(x) ==
    CASE x = "above" -> "nan"
      [] x = "one" -> "zero"
      [] x = "below" -> "positive"

\* line 216: np.exp(-2 * gamow_factor)
TunnelingProbability(gamow_factor) ==
    CASE gamow_factor = "nan" -> "nan"
      [] gamow_factor = "zero" -> "one"
      [] gamow_factor = "positive" -> "below one"

\* lines 215-219: the columns assigned once x is known
GamowColumns(screening, screened_heavier_daughter_z, x, gamow_factor) ==
    [screening |-> screening,
     screened_heavier_daughter_z |-> screened_heavier_daughter_z,
     x |-> x,
     gamow_factor |-> gamow_factor,
     tunneling_probability |-> TunnelingProbability(gamow_factor)]

\* lines 215-216 for a given x
GamowAt(screening, screened_heavier_daughter_z, x) ==
    GamowColumns(screening, screened_heavier_daughter_z, x, GamowFactor(x))

\* lines 201-213 for a given screening
GamowScreened(row, screening, screened_heavier_daughter_z) ==
    GamowAt(screening, screened_heavier_daughter_z,
            XAgainstOne(LighterKeKev(row) * NuclearSeparationFm(row),
                        20 * screened_heavier_daughter_z * e2_4pi))

\* lines 200-201: screening = kwargs.get('screening') or 0
GamowWith(row, screening) ==
    GamowScreened(row, screening, row.heavier_daughter_z - screening)

GamowRow(row, kwargs) == GamowWith(row, GetOr(kwargs, "screening", 0))

\* lines 188-193: the columns of one row up to starting_active_atoms;
\* moles are whole, fractions in percent, atoms in units of 10^16
ProductsRow(row, kwargs) ==
    LET starting_moles ==
            kwargs["moles"] * GetOr(kwargs, "isotopic_fraction", row.isotopic_fraction)
        active_fraction == GetOr(kwargs, "active_fraction", 100)
        starting_active_moles == starting_moles * active_fraction
    IN  [starting_moles |-> starting_moles,
         active_fraction |-> active_fraction,
         starting_active_moles |-> starting_active_moles,
         starting_active_atoms |-> starting_active_moles * avogadros_number]

\* lines 199-220 and 188-197 over the rows of a frame: the computed columns.
\* The columns after starting_active_atoms (remaining_active_atoms,
\* partial_activity, watts) are functions of these and are not evaluated.
ComputedColumns(rows, kwargs) ==
    [x \in 1..Len(rows) |->
        [gamow |-> GamowRow(rows[x], kwargs),
         products |-> ProductsRow(rows[x], kwargs)]]

\* a faulty variant: it calculates in the frame it is given
CalculateInPlace(frames, ref, kwargs) ==
    [frames |-> [frames EXCEPT ![ref].computed =
                    ComputedColumns(frames[ref].rows, kwargs)],
     ref |-> ref]

\* lines 166-170: DecayScenario._calculate: df.copy() is a new frame, and
\* the columns are assigned in the copy
Calculate(frames, ref, kwargs) ==
    [frames |-> Append(frames, [frames[ref] EXCEPT !.computed =
                                   ComputedColumns(frames[ref].rows, kwargs)]),
     ref |-> Len(frames) + 1]

\* lines 156-158: the fields of the new object, the last of objects
Constructed(heap, copy_ref, kwargs, calculated) ==
    [frames |-> calculated.frames,
     objects |-> Append(heap.objects,
                        [base_df |-> copy_ref, kwargs |-> kwargs,
                         df |-> calculated.ref])]

\* lines 155-158: DecayScenario.__init__: base_df.copy() is a new frame, and
\* the frame it was given is calculated from
NewScenario(heap, base_df, kwargs) ==
    Constructed(heap, Len(heap.frames) + 1, kwargs,
                Calculate(Append(heap.frames, heap.frames[base_df]),
                          base_df, kwargs))

\* line 176: the new object is returned
Returned(heap) == [heap |-> heap, returned |-> Len(heap.objects)]

\* lines 172-176: DecayScenario.recalculate of the object self: the heap it
\* leaves and the object it returns
Recalculate(heap, self, kwargs) ==
    IF Merged(heap.objects[self].kwargs, kwargs) = heap.objects[self].kwargs
    THEN [heap |-> heap, returned |-> self]
    ELSE Returned(NewScenario(heap, heap.objects[self].base_df,
                              Merged(heap.objects[self].kwargs, kwargs)))

\* the Decay object has its data frame, no scenario exists
DSInit ==
    \E rows \in BaseTables :
        ds = [frames |-> << [rows |-> rows, computed |-> <<>>] >>,
              objects |-> <<>>, last |-> <<>>]

\* lines 267-269: Decay.scenario builds the first DecayScenario from the
\* data frame of the Decay object
DSScenario ==
    /\ ds.objects = <<>>
    /\ \E kwargs \in ScenarioKwargs :
          ds' = NewScenario([frames |-> ds.frames, objects |-> ds.objects], 1, kwargs)
                    @@ [last |-> <<>>]

\* a method of the scenario self is called with kwargs: it calls
\* recalculate.  recalculate (column "") returns the scenario, which stays;
\* the other methods return the sum of a column of its frame, and the
\* scenario they had made is garbage.  last keeps the call, the heap it
\* found and what it returned, until the caller is done with it.
\* what a call that found heap leaves when recalculate gave r
DSReturn(method, self, kwargs, column, heap, r) ==
    ds' = [frames |-> IF column = "" THEN r.heap.frames
                      ELSE SubSeq(r.heap.frames, 1, Len(heap.frames)),
           objects |-> IF column = "" THEN r.heap.objects
                       ELSE SubSeq(r.heap.objects, 1, Len(heap.objects)),
           last |-> [method |-> method, self |-> self, kwargs |-> kwargs,
                     before |-> heap,
                     scenario |-> r.returned,
                     made |-> r.heap.objects[r.returned],
                     made_base_df |-> r.heap.frames[r.heap.objects[r.returned].base_df],
                     made_df |-> r.heap.frames[r.heap.objects[r.returned].df],
                     sum_of |-> column]]

DSCall(method, self, kwargs, column) ==
    /\ ds.last = <<>>
    /\ \/ column # ""
       \/ Len(ds.objects) < MaxScenarios
       \/ Merged(ds.objects[self].kwargs, kwargs) = ds.objects[self].kwargs
    /\ DSReturn(method, self, kwargs, column,
                [frames |-> ds.frames, objects |-> ds.objects],
                Recalculate([frames |-> ds.frames, objects |-> ds.objects],
                            self, kwargs))

\* lines 172-176: recalculate
DSRecalculate ==
    \E self \in 1..Len(ds.objects) : \E kwargs \in Overrides :
        DSCall("recalculate", self, kwargs, "")

\* lines 178-179: activity
DSActivity ==
    \E self \in 1..Len(ds.objects) : \E kwargs \in Overrides :
        DSCall("activity", self, kwargs, "partial_activity")

\* lines 181-183: power
DSPower ==
    \E self \in 1..Len(ds.objects) : \E kwargs \in Overrides :
        DSCall("power", self, kwargs, "watts")

\* lines 185-186: remaining_active_atoms
DSRemainingActiveAtoms ==
    \E self \in 1..Len(ds.objects) : \E kwargs \in Overrides :
        DSCall("remaining_active_atoms", self, kwargs, "remaining_active_atoms")

\* the caller is done with what the last call returned
DSDone ==
    /\ ds.last # <<>>
    /\ ds' = [ds EXCEPT !.last = <<>>]

(***************************************************************************)
(* The nuclide registry (nubase.py 21-28, 88-242).  A label is the         *)
(* sequence of its characters; a row of the data file is a function from   *)
(* the names of its non-blank fields; the decay field is a function from   *)
(* the mode tokens it holds to their intensities.  The Nuclide objects of  *)
(* a registry are named by their place in its list, and a dict is a        *)
(* function whose domain is its key set.                                   *)
(***************************************************************************)
\* lines 21-28
ALTERNATE_LABELS ==
    (<<"1", " ", "n">> :> <<"n">>) @@ (<<"1", "H">> :> <<"p">>)
        @@ (<<"2", "H">> :> <<"d">>) @@ (<<"3", "H">> :> <<"t">>)
        @@ (<<"1", "2", "C", "x">> :> <<"1", "2", "C">>)
        @@ (<<"1", "0", "B", "x">> :> <<"1", "0", "B">>)

\* lines 155, 159: ALTERNATE_LABELS.get(label, label)
AlternateLabel(label) ==
    IF label \in DOMAIN ALTERNATE_LABELS THEN ALTERNATE_LABELS[label] ELSE label

\* lines 107-118: Nuclide._not_excited
NotExcited ==
    {<<"1", " ", "n">>, <<"3", "L", "i">>, <<"4", "L", "i">>, <<"4", "H">>,
     <<"5", "H">>, <<"5", "H", "e">>, <<"5", "L", "i">>, <<"6", "H", "e">>,
     <<"8", "B", "e">>, <<"5", "9", "N", "i">>}

\* line 174: the letters of 'ijmnpqrx'
ExcitedSuffixes == {"i", "j", "m", "n", "p", "q", "r", "x"}

\* lines 120-123: Nuclide._noteworthy
NuclideNoteworthy == ("B-" :> "->B-") @@ ("B+" :> "->B+")

\* lines 127-135: a row of the file, with its mass-excess column filled
FileRow(massNumber, atomicNumber, nuclide, massExcess, decays) ==
    [massNumber |-> massNumber, atomicNumber |-> atomicNumber,
     nuclide |-> nuclide, massExcess |-> massExcess,
     decayModesAndIntensities |-> decays]

\* lines 127-135: a row of the file whose mass-excess column is blank
BlankRow(massNumber, atomicNumber, nuclide) ==
    [massNumber |-> massNumber, atomicNumber |-> atomicNumber,
     nuclide |-> nuclide]

\* rows of the data file, in the order of the file: the neutron, 1H, 6Li and
\* its isobaric analog state, 8Li, 8Be, 63Ni, 90Y, and a row without a mass
\* excess.  Intensities are in hundredths of a percent, energies in keV.
NubaseRows == <<
    FileRow(1, 0, <<"1", " ", "n">>, 8071, "B-" :> 10000),
    FileRow(1, 1, <<"1", "H">>, 7289, "IS" :> 9999),
    FileRow(6, 3, <<"6", "L", "i">>, 14087, "IS" :> 759),
    FileRow(6, 3, <<"6", "L", "i", "i">>, 17650, "IT" :> 10000),
    FileRow(8, 3, <<"8", "L", "i">>, 20946, "B-" :> 10000),
    FileRow(8, 4, <<"8", "B", "e">>, 4942, "A" :> 10000),
    FileRow(63, 28, <<"6", "3", "N", "i">>, -65513, "B-" :> 10000),
    FileRow(90, 39, <<"9", "0", "Y">>, -86495, "B-" :> 10000),
    BlankRow(90, 39, <<"9", "0", "Y", "n">>) >>

\* the largest member of a set of places
Largest(S) == CHOOSE m \in S : \A x \in S : x <= m

RECURSIVE InOrder(_)
\* the places of a set in the order of the list
WithLargest(S, m) == Append(InOrder(S \ {m}), m)
InOrder(S) == IF S = {} THEN <<>> ELSE WithLargest(S, Largest(S))

\* the rows of a file: some rows of the table, in its order
FileOf(S) == [i \in 1..Cardinality(S) |-> NubaseRows[InOrder(S)[i]]]
Files ==
    {FileOf(S) : S \in {T \in SUBSET (1..Len(NubaseRows)) :
                            Cardinality(T) <= MaxRecords}}

\* line 144: self._row.get('decayModesAndIntensities', '')
Decays(row) ==
    IF "decayModesAndIntensities" \in DOMAIN row
    THEN row.decayModesAndIntensities ELSE <<>>

\* lines 145-146: the percentage after IS=, or 0
IsotopicAbundance(decays) ==
    IF "IS" \in DOMAIN decays THEN decays["IS"] ELSE 0

\* lines 168-174: Nuclide.is_excited
is_excited(label, isotopic_abundance) ==
    IF isotopic_abundance # 0 THEN FALSE
    ELSE IF label \in NotExcited THEN FALSE
    ELSE label[Len(label)] \in ExcitedSuffixes

\* lines 140-152, 161-163: the fields of the Nuclide once its label and
\* excitation level are known
NuclideLabelled(row, label, excitation_level) ==
    [row_label |-> row.nuclide,
     atomic_number |-> row.atomicNumber,
     mass_number |-> row.massNumber,
     isotopic_abundance |-> IsotopicAbundance(Decays(row)),
     is_stable |-> "IS" \in DOMAIN Decays(row),
     notes |-> {NuclideNoteworthy[lvalue] :
                   lvalue \in DOMAIN NuclideNoteworthy \cap DOMAIN Decays(row)},
     numbers |-> <<row.massNumber, row.atomicNumber>>,
     label |-> label,
     excitation_level |-> excitation_level,
     signature |-> <<label, excitation_level>>,
     mass_excess_kev |-> row.massExcess]

\* lines 153-160: the label and the excitation level
NewNuclide(row) ==
    IF is_excited(row.nuclide, IsotopicAbundance(Decays(row)))
    THEN NuclideLabelled(row,
             AlternateLabel(SubSeq(row.nuclide, 1, Len(row.nuclide) - 1)),
             row.nuclide[Len(row.nuclide)])
    ELSE NuclideLabelled(row, AlternateLabel(row.nuclide), "0")

\* lines 138-139: BadNubaseRow is raised for a row without a mass excess
HasMassExcess(row) == "massExcess" \in DOMAIN row

\* lines 213-220: Nuclides.load keeps a Nuclide for every row that raises
\* nothing
NuclidesOfRows(rows) == [i \in DOMAIN rows |-> NewNuclide(rows[i])]
LoadNuclides(file) == NuclidesOfRows(SelectSeq(file, HasMassExcess))

\* lines 223-233: Nuclides.__init__: in the plain dicts a later nuclide
\* replaces an earlier one of the same key, in the defaultdicts it is appended
NewNuclides(nuclides) ==
    [nuclides |-> nuclides,
     by_label |->
        [k \in {nuclides[i].row_label : i \in DOMAIN nuclides} |->
            Largest({i \in DOMAIN nuclides : nuclides[i].row_label = k})],
     by_signature |->
        [k \in {nuclides[i].signature : i \in DOMAIN nuclides} |->
            Largest({i \in DOMAIN nuclides : nuclides[i].signature = k})],
     by_atomic_number |->
        [k \in {nuclides[i].atomic_number : i \in DOMAIN nuclides} |->
            InOrder({i \in DOMAIN nuclides : nuclides[i].atomic_number = k})],
     isomers |->
        [k \in {nuclides[i].numbers : i \in DOMAIN nuclides} |->
            InOrder({i \in DOMAIN nuclides : nuclides[i].numbers = k})]]

\* a defaultdict(list) after d[key]: a missing key is inserted with a new
\* empty list
DefaultDictAfter(d, key) ==
    IF key \in DOMAIN d THEN d ELSE d @@ (key :> <<>>)

\* what d[key] of a defaultdict(list) returns
DefaultDictItem(d, key) == IF key \in DOMAIN d THEN d[key] ELSE <<>>

\* the keys that are looked up: signatures, atomic numbers, and the
\* (mass number, atomic number) pairs of daughters
LookupSignatures ==
    {<< <<"n">>, "0" >>, << <<"8", "L", "i">>, "0" >>,
     << <<"6", "L", "i">>, "i" >>}
LookupAtomicNumbers == {0, 3, 46}
LookupPairs == {<<1, 0>>, <<8, 3>>, <<2, 0>>}

\* no instance: the fields of reg.instance mean nothing while reg.made = 0
NoInstance ==
    [nuclides |-> <<>>, by_label |-> <<>>, by_signature |-> <<>>,
     by_atomic_number |-> <<>>, isomers |-> <<>>]

\* line 202: Nuclides._nuclides is None; the file at NUBASE_PATH is some file
RegInit ==
    \E file \in Files :
        reg = [state |-> "class", file |-> file, made |-> 0,
               instance |-> NoInstance, constructed |-> NoInstance,
               lookups |-> 0, returned |-> <<>>]

\* lines 204-208: Nuclides.db() loads the registry at its first call.
\* constructed keeps the registry as __init__ left it.
RegDbLoad ==
    /\ reg.state = "class"
    /\ reg.made = 0
    /\ reg' = [reg EXCEPT !.made = 1,
                          !.instance = NewNuclides(LoadNuclides(reg.file)),
                          !.constructed = NewNuclides(LoadNuclides(reg.file)),
                          !.returned = [call |-> "db", raised |-> FALSE,
                                        value |-> <<1>>]]

\* lines 204-208: a later call of Nuclides.db() returns the class attribute
RegDb ==
    /\ reg.state = "class"
    /\ reg.made > 0
    /\ reg.lookups < MaxLookups
    /\ reg' = [reg EXCEPT !.lookups = @ + 1,
                          !.returned = [call |-> "db", raised |-> FALSE,
                                        value |-> <<reg.made>>]]

\* lines 238-239: Nuclides.get: None (no value) for a missing signature
RegGet ==
    /\ reg.state = "class"
    /\ reg.made > 0
    /\ reg.lookups < MaxLookups
    /\ \E signature \in LookupSignatures :
          reg' = [reg EXCEPT
                    !.lookups = @ + 1,
                    !.returned =
                        [call |-> "get", raised |-> FALSE,
                         value |-> IF signature \in DOMAIN reg.instance.by_signature
                                   THEN <<reg.instance.by_signature[signature]>>
                                   ELSE <<>>]]

\* lines 241-242: Nuclides.__getitem__: KeyError for a missing signature
RegGetItem ==
    /\ reg.state = "class"
    /\ reg.made > 0
    /\ reg.lookups < MaxLookups
    /\ \E signature \in LookupSignatures :
          reg' = [reg EXCEPT
                    !.lookups = @ + 1,
                    !.returned =
                        [call |-> "getitem",
                         raised |-> signature \notin DOMAIN reg.instance.by_signature,
                         value |-> IF signature \in DOMAIN reg.instance.by_signature
                                   THEN <<reg.instance.by_signature[signature]>>
                                   ELSE <<>>]]

\* lines 235-236: Nuclides.atomic_number
RegAtomicNumber ==
    /\ reg.state = "class"
    /\ reg.made > 0
    /\ reg.lookups < MaxLookups
    /\ \E number \in LookupAtomicNumbers :
          reg' = [reg EXCEPT
                    !.lookups = @ + 1,
                    !.instance.by_atomic_number = DefaultDictAfter(@, number),
                    !.returned =
                        [call |-> "atomic_number", raised |-> FALSE,
                         value |-> DefaultDictItem(reg.instance.by_atomic_number,
                                                   number)]]

\* line 379: nuclides.isomers[pair] in Combinations._daughters
RegIsomers ==
    /\ reg.state = "class"
    /\ reg.made > 0
    /\ reg.lookups < MaxLookups
    /\ \E pair \in LookupPairs :
          reg' = [reg EXCEPT
                    !.lookups = @ + 1,
                    !.instance.isomers = DefaultDictAfter(@, pair),
                    !.returned =
                        [call |-> "isomers", raised |-> FALSE,
                         value |-> DefaultDictItem(reg.instance.isomers, pair)]]

(***************************************************************************)
(* Specifications                                                          *)
(***************************************************************************)
V3Idle == v3 = [integer |-> 0, i |-> 0, k |-> 0, out |-> <<>>, pc |-> "idle"]
PDIdle == pd = [totals |-> <<0, 0>>, mi |-> 1, pi |-> 1,
                seen |-> {}, out |-> <<>>, pc |-> "idle"]
RxIdle == rx = [state |-> "idle"]
CombIdle ==
    /\ input = [reactants |-> <<>>, kwargs |-> <<>>]
    /\ table = <<>>
    /\ gen = [c \in Consumers |-> GenIdle]
    /\ calls = 0
    /\ first = <<>>
combVars == <<input, table, gen, calls, first>>
CKIdle == ck = <<>>
SysIdle == sys = [state |-> "idle"]
DSIdle == ds = [frames |-> <<>>, objects |-> <<>>, last |-> <<>>]
RegIdle == reg = [state |-> "idle"]
AuxIdle == CKIdle /\ SysIdle /\ DSIdle /\ RegIdle

\* the vectors3 generator alone
InitVectors3 == V3Init /\ PDIdle /\ RxIdle /\ CombIdle /\ AuxIdle
NextVectors3 ==
    \/ V3Yield /\ UNCHANGED <<pd, rx, combVars, auxVars>>
    \/ V3NextI /\ UNCHANGED <<pd, rx, combVars, auxVars>>
    \/ V3Return /\ UNCHANGED <<pd, rx, combVars, auxVars>>
SpecVectors3 == InitVectors3 /\ [][NextVectors3]_vars

\* the possible_daughters generator alone
InitDaughters == PDInit /\ V3Idle /\ RxIdle /\ CombIdle /\ AuxIdle
NextDaughters ==
    \/ PDReject /\ UNCHANGED <<v3, rx, combVars, auxVars>>
    \/ PDSkipSeen /\ UNCHANGED <<v3, rx, combVars, auxVars>>
    \/ PDYield /\ UNCHANGED <<v3, rx, combVars, auxVars>>
    \/ PDNextMasses /\ UNCHANGED <<v3, rx, combVars, auxVars>>
    \/ PDReturn /\ UNCHANGED <<v3, rx, combVars, auxVars>>
SpecDaughters == InitDaughters /\ [][NextDaughters]_vars

\* Reaction objects alone
InitReaction == RxInit /\ V3Idle /\ PDIdle /\ CombIdle /\ AuxIdle
NextReaction ==
    \/ RxLoad /\ UNCHANGED <<v3, pd, combVars, auxVars>>
    \/ RxDrop /\ UNCHANGED <<v3, pd, combVars, auxVars>>
SpecReaction == InitReaction /\ [][NextReaction]_vars

\* Reaction objects whose notes are read
NextNotes ==
    \/ RxLoadNoted /\ UNCHANGED <<v3, pd, combVars, auxVars>>
    \/ RxNotes /\ UNCHANGED <<v3, pd, combVars, auxVars>>
    \/ RxDrop /\ UNCHANGED <<v3, pd, combVars, auxVars>>
SpecNotes == InitReaction /\ [][NextNotes]_vars

\* System._parse_spec alone
InitParse ==
    SysInit /\ V3Idle /\ PDIdle /\ RxIdle /\ CombIdle /\ CKIdle /\ DSIdle /\ RegIdle
NextParse ==
    \/ SysParse /\ UNCHANGED <<v3, pd, rx, combVars, ck, ds, reg>>
    \/ SysDrop /\ UNCHANGED <<v3, pd, rx, combVars, ck, ds, reg>>
SpecParse == InitParse /\ [][NextParse]_vars

\* DecayScenario objects over the data frame of one Decay
InitScenario ==
    DSInit /\ V3Idle /\ PDIdle /\ RxIdle /\ CombIdle /\ CKIdle /\ SysIdle /\ RegIdle
NextScenario ==
    \/ DSScenario /\ UNCHANGED <<v3, pd, rx, combVars, ck, sys, reg>>
    \/ DSRecalculate /\ UNCHANGED <<v3, pd, rx, combVars, ck, sys, reg>>
    \/ DSActivity /\ UNCHANGED <<v3, pd, rx, combVars, ck, sys, reg>>
    \/ DSPower /\ UNCHANGED <<v3, pd, rx, combVars, ck, sys, reg>>
    \/ DSRemainingActiveAtoms /\ UNCHANGED <<v3, pd, rx, combVars, ck, sys, reg>>
    \/ DSDone /\ UNCHANGED <<v3, pd, rx, combVars, ck, sys, reg>>
SpecScenario == InitScenario /\ [][NextScenario]_vars

\* the cache keys of two Combinations objects
InitCacheKey ==
    CKInit /\ V3Idle /\ PDIdle /\ RxIdle /\ CombIdle /\ SysIdle /\ DSIdle /\ RegIdle
NextCacheKey ==
    \/ CKLoad /\ UNCHANGED <<v3, pd, rx, combVars, sys, ds, reg>>
    \/ CKDrop /\ UNCHANGED <<v3, pd, rx, combVars, sys, ds, reg>>
SpecCacheKey == InitCacheKey /\ [][NextCacheKey]_vars

\* the Nuclides class, its registry and the lookups made in it
InitRegistry ==
    RegInit /\ V3Idle /\ PDIdle /\ RxIdle /\ CombIdle /\ CKIdle /\ SysIdle /\ DSIdle
NextRegistry ==
    \/ RegDbLoad /\ UNCHANGED <<v3, pd, rx, combVars, ck, sys, ds>>
    \/ RegDb /\ UNCHANGED <<v3, pd, rx, combVars, ck, sys, ds>>
    \/ RegGet /\ UNCHANGED <<v3, pd, rx, combVars, ck, sys, ds>>
    \/ RegGetItem /\ UNCHANGED <<v3, pd, rx, combVars, ck, sys, ds>>
    \/ RegAtomicNumber /\ UNCHANGED <<v3, pd, rx, combVars, ck, sys, ds>>
    \/ RegIsomers /\ UNCHANGED <<v3, pd, rx, combVars, ck, sys, ds>>
SpecRegistry == InitRegistry /\ [][NextRegistry]_vars

\* Combinations.reactions() of two consumers over one cache store
Init == CombInit /\ V3Idle /\ PDIdle /\ RxIdle /\ AuxIdle
Next ==
    \E c \in Consumers :
        \/ CallHit(c) /\ UNCHANGED <<v3, pd, rx, auxVars>>
        \/ YieldCached(c) /\ UNCHANGED <<v3, pd, rx, auxVars>>
        \/ ReturnCached(c) /\ UNCHANGED <<v3, pd, rx, auxVars>>
        \/ CallMiss(c) /\ UNCHANGED <<v3, pd, rx, auxVars>>
        \/ CallRaise(c) /\ UNCHANGED <<v3, pd, rx, auxVars>>
        \/ Filter(c) /\ UNCHANGED <<v3, pd, rx, auxVars>>
        \/ Yield(c) /\ UNCHANGED <<v3, pd, rx, auxVars>>
        \/ Resume(c) /\ UNCHANGED <<v3, pd, rx, auxVars>>
        \/ Close(c) /\ UNCHANGED <<v3, pd, rx, auxVars>>
        \/ ExecuteMany(c) /\ UNCHANGED <<v3, pd, rx, auxVars>>
        \/ Commit(c) /\ UNCHANGED <<v3, pd, rx, auxVars>>
        \/ CallFail(c) /\ UNCHANGED <<v3, pd, rx, auxVars>>
        \/ UnpickleFail(c) /\ UNCHANGED <<v3, pd, rx, auxVars>>
        \/ WriteFail(c) /\ UNCHANGED <<v3, pd, rx, auxVars>>
Spec == Init /\ [][Next]_vars

(***************************************************************************)
(* Properties of vectors3                                                  *)
(***************************************************************************)
\* the generator and the function vectors3 describe the same sequence
V3OperatorAgrees == v3.pc = "done" => v3.out = vectors3(v3.integer)

\* C7, as stated: for all n >= 0, vectors3(n) produces exactly n+1 ordered
\* triples.
C7_CountIsNPlusOne == v3.pc = "done" => Len(v3.out) = v3.integer + 1

\* C7, amended: for all n >= 0, vectors3(n) produces exactly n(n+1)/2
\* ordered triples (none for n = 0, 6 for n = 3, 15 for n = 5).
C7_CountIsTriangular ==
    v3.pc = "done" => 2 * Len(v3.out) = v3.integer * (v3.integer + 1)

C7_Witness == v3.pc = "done" /\ v3.integer = 5 /\ Len(v3.out) = 15

\* C8: for every n >= 0, vectors3(n) yields exactly the triples
\* (n-i-k, k, i), i ascending from 0 to n-1 and, within each i, k ascending
\* from 0 to n-i-1, each once; every triple consists of non-negative
\* integers summing to n; n = 3 gives the six triples of the test and
\* n = 5 gives 15.
C8_YieldOrder ==
    LET n == v3.integer
        out == v3.out
    IN  /\ \A x \in 1..Len(out) :
              /\ Len(out[x]) = 3
              /\ \A c \in 1..3 : out[x][c] \in Nat
              /\ out[x][1] + out[x][2] + out[x][3] = n
              /\ out[x][3] \in 0..(n - 1)
              /\ out[x][2] \in 0..(n - out[x][3] - 1)
        /\ \A x \in 1..(Len(out) - 1) :
              \/ out[x][3] < out[x + 1][3]
              \/ out[x][3] = out[x + 1][3] /\ out[x][2] < out[x + 1][2]
        /\ v3.pc = "done" =>
              /\ \A i \in 0..(n - 1) : \A k \in 0..(n - i - 1) :
                    \E x \in 1..Len(out) : out[x] = <<n - i - k, k, i>>
              /\ n = 3 => out = << <<3, 0, 0>>, <<2, 1, 0>>, <<1, 2, 0>>,
                                   <<2, 0, 1>>, <<1, 1, 1>>, <<1, 0, 2>> >>
              /\ n = 5 => Len(out) = 15

C8_Witness ==
    /\ v3.pc = "done"
    /\ v3.integer = 3
    /\ Len(v3.out) = 6
    /\ v3.out[4] = <<2, 0, 1>>

(***************************************************************************)
(* Properties of possible_daughters                                        *)
(***************************************************************************)
RECURSIVE SumComponent(_, _)
\* the sum of component c over the pairs of a tuple
SumComponent(t, c) ==
    IF t = <<>> THEN 0 ELSE Head(t)[c] + SumComponent(Tail(t), c)

\* a pair (m, z) with m >= z >= 0 that is not (0, 0)
ValidPair(p) == p[1] \in Nat /\ p[2] \in Nat /\ p[1] >= p[2] /\ p # <<0, 0>>

\* pairs in sorted (lexicographic, non-decreasing) order
InSortedOrder(t) ==
    \A x \in 1..(Len(t) - 1) :
        \/ t[x][1] < t[x + 1][1]
        \/ t[x][1] = t[x + 1][1] /\ t[x][2] <= t[x + 1][2]

\* a sound partition of the totals
SoundPartition(t, totals) ==
    /\ Len(t) \in 1..3
    /\ \A x \in 1..Len(t) : ValidPair(t[x])
    /\ InSortedOrder(t)
    /\ SumComponent(t, 1) = totals[1]
    /\ SumComponent(t, 2) = totals[2]

\* every sound partition of the totals
AllPartitions(totals) ==
    LET P == {p \in (0..totals[1]) \X (0..totals[2]) : ValidPair(p)}
    IN  {t \in UNION {[1..n -> P] : n \in 1..3} : SoundPartition(t, totals)}

\* C1: for every total (A, Z) with A >= Z >= 0, every tuple yielded by
\* possible_daughters((A, Z)) has between 1 and 3 pairs (m, z), each with
\* m >= z >= 0 and (m, z) # (0, 0), in sorted order, with masses summing to
\* A and charges summing to Z, and no tuple is yielded twice.
C1_Sound ==
    /\ \A x \in 1..Len(pd.out) : SoundPartition(pd.out[x], pd.totals)
    /\ \A x, y \in 1..Len(pd.out) : pd.out[x] = pd.out[y] => x = y

C1_Witness ==
    /\ pd.pc = "done"
    /\ pd.totals = <<6, 3>>
    /\ Len(pd.out) = 19
    /\ \E x \in 1..Len(pd.out) : Len(pd.out[x]) = 3

\* C2: for every total (A, Z) with A >= 1 and A >= Z >= 0, the set of tuples
\* yielded by possible_daughters((A, Z)) equals the set of all sorted tuples
\* of 1 to 3 valid pairs whose masses sum to A and whose charges sum to Z.
C2_Complete ==
    (pd.pc = "done" /\ pd.totals[1] >= 1) =>
        {pd.out[x] : x \in 1..Len(pd.out)} = AllPartitions(pd.totals)

\* what the code does achieve: completeness when the total charge is >= 1
\* (19 tuples for (6, 3))
C2_CompleteWhenCharged ==
    (pd.pc = "done" /\ pd.totals[2] >= 1) =>
        /\ {pd.out[x] : x \in 1..Len(pd.out)} = AllPartitions(pd.totals)
        /\ pd.totals = <<6, 3>> => Len(pd.out) = 19

\* and nothing at all is yielded for a neutral total
C2_NeutralYieldsNothing == pd.totals[2] = 0 => pd.out = <<>>

\* the canonical tuple of combination number c (1-based, the mass
\* compositions in the outer loop, the charge compositions in the inner)
PDCombination(totals, c) ==
    LET ml == vectors3(totals[1])
        pl == vectors3(totals[2])
        masses == ml[((c - 1) \div Len(pl)) + 1]
        protons == pl[((c - 1) % Len(pl)) + 1]
    IN  [rejected |-> \E i \in 1..3 : masses[i] < protons[i],
         pairs |-> SortPairsFrom(
                     SelectSeq([i \in 1..3 |-> <<masses[i], protons[i]>>],
                               LAMBDA q : q # <<0, 0>>))]

\* C9: possible_daughters((A, Z)) yields its distinct tuples in order of
\* first occurrence when mass compositions are iterated in the outer loop
\* and charge compositions in the inner loop, both in vectors3 order; so for
\* A >= Z >= 1 the first tuple yielded is ((A, Z),); (8, 4) yields 42 tuples
\* and (2, 1) yields exactly [((2,1),), ((1,0),(1,1))].
C9_FirstOccurrenceOrder ==
    LET totals == pd.totals
        out == pd.out
        count == Len(vectors3(totals[1])) * Len(vectors3(totals[2]))
        accepted == {c \in 1..count : ~PDCombination(totals, c).rejected}
        firstAt(t) == CHOOSE c \in accepted :
                       /\ PDCombination(totals, c).pairs = t
                       /\ \A d \in accepted :
                             PDCombination(totals, d).pairs = t => c <= d
    IN  /\ (Len(out) >= 1 /\ totals[2] >= 1) => out[1] = << totals >>
        /\ pd.pc = "done" =>
              /\ {out[x] : x \in 1..Len(out)} =
                    {PDCombination(totals, c).pairs : c \in accepted}
              /\ \A x \in 1..(Len(out) - 1) : firstAt(out[x]) < firstAt(out[x + 1])
              /\ totals = <<8, 4>> => Len(out) = 42
              /\ totals = <<2, 1>> =>
                    out = << << <<2, 1>> >>, << <<1, 0>>, <<1, 1>> >> >>

C9_Witness ==
    /\ pd.pc = "done"
    /\ pd.totals = <<8, 4>>
    /\ Len(pd.out) = 42
    /\ pd.out[1] = << <<8, 4>> >>

\* the generator and the function possible_daughters agree
PDOperatorAgrees == pd.pc = "done" => pd.out = possible_daughters(pd.totals)

(***************************************************************************)
(* Properties of Reaction                                                  *)
(***************************************************************************)
RECURSIVE WeightedExcess(_, _)
\* the sum of count x massExcessKev over the first x pairs of a side
WeightedExcess(side, x) ==
    IF x = 0 THEN 0
    ELSE WeightedExcess(side, x - 1)
         + side[x][1] * NuclideTable[side[x][2]].mass_excess_kev

\* C10: for every Reaction, q_value_kev equals the sum of count x
\* massExcessKev over the left-side pairs minus the same sum over the
\* right-side pairs as given at construction, for any counts >= 1 and signed
\* mass excesses.
C10_QValue ==
    rx.state = "built" =>
        rx.reaction.q_value_kev =
            WeightedExcess(rx.reactants, Len(rx.reactants))
            - WeightedExcess(rx.daughters, Len(rx.daughters))

\* 2 d -> 4He releases 2 x 13136 - 2425 keV
C10_Witness ==
    /\ rx.state = "built"
    /\ rx.reactants = << <<2, N_d>> >>
    /\ rx.daughters = << <<1, N_4He>> >>
    /\ rx.reaction.q_value_kev = 23847

(***************************************************************************)
(* Properties of Combinations                                              *)
(***************************************************************************)
RECURSIVE WeightedNumbers(_, _, _)
\* the sum of count x numbers[k] over the first x pairs of a side
WeightedNumbers(side, x, k) ==
    IF x = 0 THEN 0
    ELSE WeightedNumbers(side, x - 1, k)
         + side[x][1] * NuclideTable[side[x][2]].numbers[k]

\* the count-weighted (mass number, atomic number) of a side
SideTotals(side) ==
    <<WeightedNumbers(side, Len(side), 1), WeightedNumbers(side, Len(side), 2)>>

\* C3: for every reactant list of one or more (count, nuclide) pairs with
\* positive counts, the totals _outcomes passes to the partition enumerator
\* are the sum of count x (massNumber, atomicNumber) over the reactants, so
\* every Reaction yielded has the same count-weighted totals on both sides.
C3_TotalsConserved ==
    \A c \in Consumers :
        /\ gen[c].path = "miss" =>
              /\ gen[c].pc # "raised"
              /\ gen[c].totals = SideTotals(input.reactants)
        /\ \A x \in 1..Len(gen[c].out) :
              SideTotals(gen[c].out[x].lvalues) = SideTotals(gen[c].out[x].rvalues)

\* what the code does achieve: the totals are right, and mass and charge are
\* conserved, for exactly two reactants of count 1 each
C3_TwoSingleReactants ==
    (/\ Len(input.reactants) = 2
     /\ \A x \in 1..Len(input.reactants) : input.reactants[x][1] = 1)
    => C3_TotalsConserved

\* C4: each cache key holds at most one persisted result set: after any
\* interleaving of reactions() runs with the same reactants and threshold,
\* no row is stored twice under the key, and a cache read yields each
\* reaction once.
C4_AtMostOneResultSet ==
    /\ \A x, y \in 1..Len(table) : table[x] = table[y] => x = y
    /\ \A c \in Consumers :
          gen[c].path = "hit" =>
              \A x, y \in 1..Len(gen[c].out) :
                  gen[c].out[x] = gen[c].out[y] => x = y

\* C5: once reactions() has been enumerated to its end, a later enumeration
\* with the same reactants and threshold hits the cache (no partition
\* expansion, no Reaction construction) and yields a sequence equal to the
\* first, also when the result set is empty.
C5_SecondEnumerationHitsCache ==
    \A c \in Consumers :
        gen[c].after_first =>
            /\ gen[c].path = "hit"
            /\ gen[c].pc = "done" => gen[c].out = first[1]

\* the candidates a generator on the miss path has gone through so far
Processed(c) ==
    LET n == IF gen[c].pc \in {"yielded", "closed"}
             THEN gen[c].idx ELSE gen[c].idx - 1
    IN  [x \in 1..n |-> Candidate(input.reactants, gen[c].daughters[x])]

\* C6: on a cache miss, reactions() with a lower_bound T yields exactly the
\* candidate Reactions whose Q-value is strictly greater than T, in
\* candidate order; with no threshold it yields every candidate.
C6_StrictFilter ==
    \A c \in Consumers :
        (gen[c].path = "miss" /\ gen[c].pc # "raised") =>
            /\ gen[c].out =
                  SelectSeq(Processed(c),
                            LAMBDA r : IF input.kwargs = <<>> THEN TRUE
                                       ELSE r.q_value_kev > input.kwargs[1])
            /\ gen[c].pc \in {"inserted", "done"} =>
                  Len(Processed(c)) = Len(gen[c].daughters)

\* a finished miss with threshold 0 that dropped a candidate of Q = 0
C6_Witness ==
    \E c \in Consumers :
        /\ gen[c].path = "miss"
        /\ gen[c].pc = "done"
        /\ input.kwargs = <<0>>
        /\ gen[c].out # <<>>
        /\ \E x \in 1..Len(Processed(c)) : Processed(c)[x].q_value_kev = 0
        /\ \A x \in 1..Len(gen[c].out) : gen[c].out[x].q_value_kev > 0

(***************************************************************************)
(* Properties of the cache key                                             *)
(***************************************************************************)
\* the number of times the pair p occurs in the reactant list s
Occurrences(p, s) == Cardinality({x \in 1..Len(s) : s[x] = p})

\* two reactant lists are permutations of the same (count, nuclide) pairs
SameMultiset(a, b) ==
    /\ Len(a) = Len(b)
    /\ \A x \in 1..Len(a) : Occurrences(a[x], a) = Occurrences(a[x], b)

\* C11: two Combinations have the same cache key exactly when their
\* reactants are permutations of the same (count, nuclide) pairs and their
\* thresholds are the same.  The code violates the "if" part: the sort is by
\* signature alone and stable, so two pairs of one nuclide with different
\* counts keep the order they were given in.
C11_KeyOfMultiset ==
    Len(ck) = 2 =>
        ((ck[1].cache_key = ck[2].cache_key)
            <=> (/\ SameMultiset(ck[1].reactants, ck[2].reactants)
                 /\ ck[1].kwargs = ck[2].kwargs))

\* the part of C11 the code keeps: different multisets or thresholds have
\* different keys, and permutations of pairs of distinct nuclides the same
C11_DistinctInputsDistinctKeys ==
    Len(ck) = 2 =>
        /\ (ck[1].cache_key = ck[2].cache_key
               => /\ SameMultiset(ck[1].reactants, ck[2].reactants)
                  /\ ck[1].kwargs = ck[2].kwargs)
        /\ ((/\ SameMultiset(ck[1].reactants, ck[2].reactants)
             /\ ck[1].kwargs = ck[2].kwargs
             /\ \A x \in 1..Len(ck[1].reactants) :
                    \A y \in 1..Len(ck[1].reactants) :
                       (x # y) => (ck[1].reactants[x][2] # ck[1].reactants[y][2]))
               => ck[1].cache_key = ck[2].cache_key)

(***************************************************************************)
(* Properties of Reaction.notes                                            *)
(***************************************************************************)
\* the number of GammaPhotons on a side
Photons(side) == Cardinality({x \in 1..Len(side) : side[x][2] = Gamma})

\* C12: reading notes is idempotent: after any number of accesses the right
\* side holds at most one GammaPhoton, and every access returned the set
\* the first one returned.  The code violates it for a Reaction with an
\* empty right side: has_gamma is true of the empty side and again of the
\* side of one photon, so the second access appends a second photon.
C12_NotesIdempotent ==
    rx.state = "built" =>
        /\ Photons(rx.reaction.rvalues) <= 1
        /\ \A k \in 1..Len(rx.returned) :
               rx.returned[k].notes = rx.returned[1].notes

\* what the code keeps of C12: a Reaction built with at least one daughter
\* never gets a second photon, and every access returns the same set
C12_IdempotentWithDaughters ==
    (rx.state = "built" /\ rx.daughters # <<>>) =>
        /\ Photons(rx.reaction.rvalues) <= 1
        /\ \A k \in 1..Len(rx.returned) :
               rx.returned[k].notes = rx.returned[1].notes

\* every access returns the same set, whatever the right side
C12_SameNotesOnEveryAccess ==
    rx.state = "built" =>
        \A k \in 1..Len(rx.returned) :
            rx.returned[k].notes = rx.returned[1].notes

\* C13 as stated: on every access, notes contains "stable" exactly when
\* every nuclide of the right side the access finds is stable.  The code
\* violates it: is_stable is fixed at construction, and the GammaPhoton an
\* earlier access appended to the right side is not stable.
C13_StableIffRightSideStable ==
    rx.state = "built" =>
        \A k \in 1..Len(rx.returned) :
            ("stable" \in rx.returned[k].notes)
                <=> (\A x \in 1..Len(rx.returned[k].found) :
                        StableNuclide(rx.returned[k].found[x][2]))

\* C13, amended: on every access, notes contains "stable" exactly when
\* every nuclide of the right side the Reaction was constructed with is
\* stable (a synthesized GammaPhoton does not count).
C13_StableIffDaughtersStable ==
    rx.state = "built" =>
        \A k \in 1..Len(rx.returned) :
            ("stable" \in rx.returned[k].notes)
                <=> (\A x \in 1..Len(rx.daughters) :
                        StableNuclide(rx.daughters[x][2]))

\* p + d -> 3He: the second access finds 3He and the photon of the first
\* one on the right side and still returns "stable"
C13_Witness ==
    /\ rx.state = "built"
    /\ rx.reactants = << <<1, N_p>>, <<1, N_d>> >>
    /\ rx.daughters = << <<1, 5>> >>
    /\ Len(rx.returned) = 2
    /\ rx.returned[2].found = << <<1, 5>>, <<1, Gamma>> >>
    /\ rx.returned[2].notes = {"stable", "gamma"}

(***************************************************************************)
(* Properties of System._parse_spec                                        *)
(***************************************************************************)
\* the term is the label of a ground-state nuclide of the registry
IsGroundStateLabel(term) ==
    \E n \in Nuclides : NuclideTable[n].label = term /\ NuclideTable[n].level = "0"

\* the symbol of the element of an atomic number
ElementSymbol(z) ==
    CASE z = 0 -> "n" [] z = 1 -> "H" [] z = 2 -> "He" [] z = 3 -> "Li"
      [] z = 8 -> "O"

\* the term is the symbol of an element the registry has isotopes of
IsElementSymbol(term) ==
    \E n \in Nuclides : ElementSymbol(NuclideTable[n].numbers[2]) = term

\* the options a term stands for: the ground-state nuclide of that label,
\* or else the naturally stable isotopes of the element of that symbol
ExpectedOptions(term) ==
    IF IsGroundStateLabel(term)
    THEN {<<1, n>> : n \in {m \in Nuclides : Signature(m) = <<term, "0">>}}
    ELSE {<<1, n>> : n \in {m \in Nuclides :
              /\ ElementSymbol(NuclideTable[m].numbers[2]) = term
              /\ NuclideTable[m].is_stable}}

\* the returned lists are exactly the Cartesian product of the options of
\* the terms, each combination once
IsProductOfOptions(out, terms) ==
    /\ \A x \in 1..Len(out) :
          /\ Len(out[x]) = Len(terms)
          /\ \A y \in 1..Len(terms) : out[x][y] \in ExpectedOptions(terms[y])
    /\ \A x \in 1..Len(out) : \A y \in 1..Len(out) : (x # y) => (out[x] # out[y])
    /\ \A f \in [1..Len(terms) -> {<<1, n>> : n \in Nuclides}] :
          (\A y \in 1..Len(terms) : f[y] \in ExpectedOptions(terms[y]))
              => \E x \in 1..Len(out) : out[x] = f

\* C14 as stated: for a spec of ground-state labels and element symbols,
\* _parse_spec returns the Cartesian product of the options of its terms.
\* The code violates it for the symbol of an element that ELEMENTS does not
\* list ("O"): ELEMENTS[label] raises KeyError.
C14_ProductForEverySymbol ==
    (/\ sys.state = "returned"
     /\ \A y \in 1..Len(sys.spec) :
            IsGroundStateLabel(sys.spec[y]) \/ IsElementSymbol(sys.spec[y]))
        => (sys.raised = "no" /\ IsProductOfOptions(sys.out, sys.spec))

\* C14, amended: for a spec of ground-state labels and element symbols
\* that ELEMENTS lists, _parse_spec returns the Cartesian product of the
\* options of its terms; a spec with any other term raises KeyError.
C14_ProductForListedSymbols ==
    sys.state = "returned" =>
        IF \A y \in 1..Len(sys.spec) :
               IsGroundStateLabel(sys.spec[y]) \/ sys.spec[y] \in DOMAIN ELEMENTS
        THEN sys.raised = "no" /\ IsProductOfOptions(sys.out, sys.spec)
        ELSE sys.raised = "KeyError"

\* 'H+Li' gives the 2 x 2 = 4 reactant lists of p, d and 6Li, 7Li
C14_Witness ==
    /\ sys.state = "returned"
    /\ sys.spec = <<"H", "Li">>
    /\ sys.out = << << <<1, N_p>>, <<1, 7>> >>, << <<1, N_p>>, <<1, 9>> >>,
                    << <<1, N_d>>, <<1, 7>> >>, << <<1, N_d>>, <<1, 9>> >> >>

(***************************************************************************)
(* Properties of the cache store                                           *)
(***************************************************************************)
\* the rows a sequence of Reactions is persisted as
RowsFor(reactions) ==
    [x \in 1..Len(reactions) |-> <<TheKey, PickleDumps(reactions[x])>>]

\* rows is k >= least copies of the non-empty sequence set, one after another
IsCopies(rows, set, least) ==
    /\ set # <<>>
    /\ Len(rows) % Len(set) = 0
    /\ Len(rows) >= least * Len(set)
    /\ \A x \in 1..Len(rows) : rows[x] = set[((x - 1) % Len(set)) + 1]

\* C15 as stated: on a miss, the result set is persisted before any of its
\* Reactions is returned: a caller that has received a Reaction finds rows
\* under the key.  The code violates it: it yields each Reaction as it is
\* computed and calls _cache_results after the loop.
C15_PersistedBeforeReturned ==
    \A c \in Consumers :
        (gen[c].path = "miss" /\ gen[c].out # <<>>) => RowsOf(TheKey) # <<>>

\* C15, amended: on a miss, nothing is persisted before the caller has
\* consumed the whole sequence: the store is empty until some generator
\* has run to its end, a generator that is still producing or was dropped
\* has written nothing, and the one write holds the whole filtered result
\* set.
C15_PersistedAfterConsumed ==
    /\ first = <<>> => table = <<>>
    /\ \A c \in Consumers :
          /\ gen[c].pc \in {"loop", "yielded", "closed"} => gen[c].pending = <<>>
          /\ gen[c].pc = "inserted" =>
                /\ gen[c].pending = RowsFor(gen[c].out)
                /\ Len(Processed(c)) = Len(gen[c].daughters)

\* a caller received Reactions, stopped early, and nothing is persisted
C15_Witness ==
    \E c \in Consumers :
        /\ gen[c].path = "miss"
        /\ gen[c].pc = "closed"
        /\ Len(gen[c].out) >= 2
        /\ table = <<>>

\* C16: no partial reads: whatever a writer is doing, the rows a reader's
\* select returns for the key are none (the reader then takes the miss
\* path) or all rows of complete result sets, never a proper part of one;
\* and the committed rows of the key are whole result sets at every point.
C16_NoPartialRead ==
    /\ table # <<>> => (first # <<>> /\ IsCopies(RowsOf(TheKey), RowsFor(first[1]), 1))
    /\ \A c \in Consumers :
          gen[c].path = "hit" =>
              (first # <<>> /\ IsCopies(gen[c].results, RowsFor(first[1]), 1))

\* a reader ran its select while another connection had inserted rows it
\* had not committed yet, and read a complete result set of several rows
C16_Witness ==
    \E c \in Consumers :
        /\ gen[c].during_write
        /\ gen[c].path = "hit"
        /\ Len(gen[c].results) >= 2
        /\ gen[c].results = RowsFor(first[1])

\* a reader ran its select while another connection had inserted rows it
\* had not committed yet, and saw no row
C16_SawNothingDuringWrite ==
    \E c \in Consumers :
        /\ gen[c].during_write
        /\ gen[c].path = "miss"
        /\ gen[c].pc = "loop"

\* C17: a cache failure never makes enumeration fail: no reactions()
\* generator ends with the exception of a store that cannot be opened, read
\* or written, or of a blob that cannot be deserialized.  The code violates
\* it: nothing catches these exceptions.
C17_CacheFailureIsAMiss ==
    \A c \in Consumers : gen[c].pc # "failed"

(***************************************************************************)
(* Properties of DecayScenario                                             *)
(***************************************************************************)
\* C18: a row whose x = lighter_ke_mev / barrier_height_mev exceeds 1 has a
\* gamow_factor of zero and a tunneling_probability of 1, never nan.  The
\* code violates it: it applies np.arccos(np.sqrt(x)) and
\* np.sqrt(x * (1 - x)) to every row, and both are nan for x > 1.
C18_NoBarrierIsDefined ==
    \A o \in 1..Len(ds.objects) :
        LET df == ds.frames[ds.objects[o].df]
        IN  \A x \in 1..Len(df.computed) :
                df.computed[x].gamow.x = "above" =>
                    /\ df.computed[x].gamow.gamow_factor = "zero"
                    /\ df.computed[x].gamow.tunneling_probability = "one"

\* the rest of C18, which the code keeps: a row with 0 <= x <= 1 has the
\* arccos-based factor, a number that is zero only at x = 1
C18_BarrierRows ==
    \A o \in 1..Len(ds.objects) :
        LET df == ds.frames[ds.objects[o].df]
        IN  \A x \in 1..Len(df.computed) :
                df.computed[x].gamow.x # "above" =>
                    /\ df.computed[x].gamow.gamow_factor # "nan"
                    /\ df.computed[x].gamow.tunneling_probability # "nan"

\* C19: recalculate, and activity, power and remaining_active_atoms which
\* call it, leave every frame and every scenario that existed before the
\* call as it was (so the receiver's base table, overrides and computed
\* table); when the merged overrides equal the receiver's, the receiver
\* itself is returned; otherwise a new scenario, with the merged overrides,
\* a base table with the receiver's rows, and the table computed from them.
C19_RecalculateIsPure ==
    ds.last # <<>> =>
        LET l == ds.last
            b == l.before
            receiver == b.objects[l.self]
            merged == Merged(receiver.kwargs, l.kwargs)
        IN  /\ \A f \in 1..Len(b.frames) : ds.frames[f] = b.frames[f]
            /\ \A o \in 1..Len(b.objects) : ds.objects[o] = b.objects[o]
            /\ (merged = receiver.kwargs) => (l.scenario = l.self)
            /\ (merged # receiver.kwargs) =>
                  /\ l.scenario > Len(b.objects)
                  /\ l.made.kwargs = merged
                  /\ l.made.base_df > Len(b.frames)
                  /\ l.made.df > Len(b.frames)
                  /\ l.made.df # l.made.base_df
                  /\ l.made_base_df = b.frames[receiver.base_df]
                  /\ l.made_df.rows = b.frames[receiver.base_df].rows
                  /\ \A x \in 1..Len(l.made_df.rows) :
                        /\ l.made_df.computed[x].gamow = GamowRow(l.made_df.rows[x], merged)
                        /\ l.made_df.computed[x].products = ProductsRow(l.made_df.rows[x], merged)

\* recalculate(screening=59) of the first scenario returned a second one,
\* computed with the screening, and the first is as it was
C19_Witness ==
    /\ ds.last # <<>>
    /\ ds.last.method = "recalculate"
    /\ ds.last.self = 1
    /\ ds.last.kwargs = ("screening" :> 59)
    /\ ds.last.scenario = 2
    /\ Len(ds.objects) = 2
    /\ ds.objects[1] = ds.last.before.objects[1]
    /\ ds.objects[2].kwargs["screening"] = 59
    /\ "screening" \notin DOMAIN ds.objects[1].kwargs

\* activity(isotopic_fraction=0) summed a column of a scenario it made and
\* dropped; power() with nothing to override summed the receiver's own
C19_ActivityWitness ==
    /\ ds.last # <<>>
    /\ ds.last.method = "activity"
    /\ ds.last.scenario # ds.last.self
    /\ ds.objects = ds.last.before.objects

\* C20: starting_active_atoms is moles x isotopic fraction x active
\* fraction x Avogadro's number, the fractions being the overrides whenever
\* they are supplied, 0 included, and else the row's natural fraction and
\* 1.  The code violates it: "kwargs.get(...) or ..." takes a supplied 0
\* for no override.
C20_StartingActiveAtoms ==
    \A o \in 1..Len(ds.objects) :
        LET df == ds.frames[ds.objects[o].df]
            kwargs == ds.objects[o].kwargs
        IN  \A x \in 1..Len(df.computed) :
                LET isotopic == IF "isotopic_fraction" \in DOMAIN kwargs
                                THEN kwargs["isotopic_fraction"]
                                ELSE df.rows[x].isotopic_fraction
                    active == IF "active_fraction" \in DOMAIN kwargs
                              THEN kwargs["active_fraction"] ELSE 100
                IN  df.computed[x].products.starting_active_atoms
                        = kwargs["moles"] * isotopic * active * avogadros_number

\* what the code keeps of C20: the formula holds when no supplied override
\* is 0
C20_WhenNoOverrideIsZero ==
    \A o \in 1..Len(ds.objects) :
        LET df == ds.frames[ds.objects[o].df]
            kwargs == ds.objects[o].kwargs
            given(key) == key \in DOMAIN kwargs
            zero(key) == IF given(key) THEN kwargs[key] = 0 ELSE FALSE
        IN  (~zero("isotopic_fraction") /\ ~zero("active_fraction")) =>
              \A x \in 1..Len(df.computed) :
                LET isotopic == IF given("isotopic_fraction")
                                THEN kwargs["isotopic_fraction"]
                                ELSE df.rows[x].isotopic_fraction
                    active == IF given("active_fraction")
                              THEN kwargs["active_fraction"] ELSE 100
                IN  df.computed[x].products.starting_active_atoms
                        = kwargs["moles"] * isotopic * active * avogadros_number

(***************************************************************************)
(* The nuclide registry: C21, C22                                          *)
(***************************************************************************)
\* the decimal digits, and a mass number below 100 written in them
DigitChars == <<"0", "1", "2", "3", "4", "5", "6", "7", "8", "9">>
MassDigits(a) ==
    IF a < 10 THEN <<DigitChars[a + 1]>>
    ELSE <<DigitChars[(a \div 10) + 1], DigitChars[(a % 10) + 1]>>

\* the element symbols of the atomic numbers of the rows; the neutron is
\* written ' n' in the table
SymbolOf ==
    (0 :> <<" ", "n">>) @@ (1 :> <<"H">>) @@ (3 :> <<"L", "i">>)
        @@ (4 :> <<"B", "e">>) @@ (28 :> <<"N", "i">>) @@ (39 :> <<"Y">>)

\* a ground-state record: its label is the mass number and the element
\* symbol, with no isomer letter appended
IsGroundStateRecord(n) ==
    n.row_label = MassDigits(n.mass_number) \o SymbolOf[n.atomic_number]

\* the Nuclide objects the registry was constructed with
Loaded == reg.constructed.nuclides

\* C21: every ground-state record the registry loads, whatever its element
\* symbol, yields a Nuclide with excitation level "0" whose label is the
\* record's label after the alternate-label mapping, and no two loaded
\* Nuclides share a signature.
C21_GroundStateLevelZero ==
    reg.made > 0 =>
        /\ \A i \in DOMAIN Loaded :
              IsGroundStateRecord(Loaded[i]) =>
                  /\ Loaded[i].excitation_level = "0"
                  /\ Loaded[i].label = AlternateLabel(Loaded[i].row_label)
        /\ \A i \in DOMAIN Loaded : \A j \in DOMAIN Loaded :
              (i # j) => (Loaded[i].signature # Loaded[j].signature)

\* C21, the part the code keeps: no two Nuclides loaded from rows of
\* different labels share a signature.
C21_SignaturesUnique ==
    reg.made > 0 =>
        \A i \in DOMAIN Loaded : \A j \in DOMAIN Loaded :
            (i # j) => (Loaded[i].signature # Loaded[j].signature)

\* C21, the ground-state records the code gets right: those with an
\* isotopic abundance, those listed in _not_excited, and those whose
\* element symbol ends in none of the letters of 'ijmnpqrx'.
C21_GroundStateWhenNotSuffixed ==
    reg.made > 0 =>
        \A i \in DOMAIN Loaded :
            (/\ IsGroundStateRecord(Loaded[i])
             /\ \/ Loaded[i].isotopic_abundance # 0
                \/ Loaded[i].row_label \in NotExcited
                \/ Loaded[i].row_label[Len(Loaded[i].row_label)]
                       \notin ExcitedSuffixes)
            => (/\ Loaded[i].excitation_level = "0"
                /\ Loaded[i].label = AlternateLabel(Loaded[i].row_label))

\* C21: a registry was loaded from a ground-state record whose element
\* symbol ends in one of the letters, and from one whose symbol does not
C21_Witness ==
    /\ reg.made > 0
    /\ \E i \in DOMAIN Loaded :
          /\ IsGroundStateRecord(Loaded[i])
          /\ Loaded[i].row_label[Len(Loaded[i].row_label)] \in ExcitedSuffixes
          /\ Loaded[i].excitation_level = "0"
    /\ \E i \in DOMAIN Loaded :
          /\ IsGroundStateRecord(Loaded[i])
          /\ Loaded[i].row_label[Len(Loaded[i].row_label)] \notin ExcitedSuffixes

\* C22: the registry is never mutated after construction: after any
\* sequence of lookups, of keys with or without a nuclide, its nuclide list
\* and the key sets and contents of its four indices are as __init__ left
\* them, and Nuclides.db() keeps returning the same instance.
C22_NeverMutated ==
    reg.made > 0 =>
        /\ reg.instance = reg.constructed
        /\ reg.made = 1
        /\ (reg.returned.call = "db") => (reg.returned.value = <<1>>)

\* C22, the part the code keeps: the nuclide list, the by-label and
\* by-signature indices and the groups of every key that had a nuclide stay
\* as they were, a key that is added has an empty group, and there is one
\* instance.
C22_OnlyEmptyGroupsAdded ==
    reg.made > 0 =>
        /\ reg.instance.nuclides = reg.constructed.nuclides
        /\ reg.instance.by_label = reg.constructed.by_label
        /\ reg.instance.by_signature = reg.constructed.by_signature
        /\ DOMAIN reg.constructed.by_atomic_number
              \subseteq DOMAIN reg.instance.by_atomic_number
        /\ \A k \in DOMAIN reg.instance.by_atomic_number :
              reg.instance.by_atomic_number[k] =
                  DefaultDictItem(reg.constructed.by_atomic_number, k)
        /\ DOMAIN reg.constructed.isomers \subseteq DOMAIN reg.instance.isomers
        /\ \A k \in DOMAIN reg.instance.isomers :
              reg.instance.isomers[k] =
                  DefaultDictItem(reg.constructed.isomers, k)
        /\ reg.made = 1
        /\ (reg.returned.call = "db") => (reg.returned.value = <<1>>)

\* C22: a key without a nuclide was looked up in a defaultdict index
C22_Witness ==
    /\ reg.made > 0
    /\ reg.returned.call \in {"atomic_number", "isomers"}
    /\ reg.returned.value = <<>>
    /\ reg.lookups > 0


=============================================================================
